---- MODULE Spec2Model ----
(***************************************************************************)
(* HYFI flood-intelligence engine (models/flood_predictor.py, constants.py) *)
(*                                                                         *)
(* Units.  Water levels are integers in centimetres (9.5 m = 950).  Time   *)
(* is in minutes: an aware datetime is its UTC instant, a timestamp TEXT   *)
(* ('%Y-%m-%d %H:%M:%S') is the wall-clock minute it spells, so that text  *)
(* comparison in SQLite is integer comparison here.  Rain is in tenths of  *)
(* a millimetre, risk in thousandths of a percent, velocity in 1/10000 m/s.*)
(***************************************************************************)
EXTENDS Integers, Sequences, FiniteSets, TLC

\* ---------------------------------------------------------------- bounds
MaxNow == 540          \* the clock stops advancing here (minutes)
MaxRows == 3           \* a fetch is started only while the store is below this
MaxLogs == 2           \* the assessment log is written only while below this
TrainHorizon == 80     \* the clock of the model-cache runs stops here (minutes)
CacheHorizon == 40     \* the clock of the cache-window runs stops here (minutes)
CycleHorizon == 60     \* the clock of the dashboard runs stops here (minutes)
Procs == {1, 2}        \* concurrent dashboard sessions sharing the store

\* ------------------------------------------------- Python None / encodings
None == -1000000       \* Python None in a numeric or datetime field
NoName == "None"       \* Python None in a text field

Min(a, b) == IF a <= b THEN a ELSE b
Max(a, b) == IF a >= b THEN a ELSE b
Abs(a) == IF a >= 0 THEN a ELSE -a

RECURSIVE SumSeq(_)
SumSeq(q) == IF q = <<>> THEN 0 ELSE Head(q) + SumSeq(Tail(q))

\* ------------------------------------------------------ fixed-point maths
\* round(x, ndigits) on a value carried in units `unit` times finer than the
\* rounded digit: to the nearest, ties to the even neighbour
RoundTo(x, unit) ==
    LET q == x \div unit
        r == x % unit
    IN IF 2 * r > unit THEN (q + 1) * unit
       ELSE IF 2 * r < unit THEN q * unit
       ELSE IF q % 2 = 0 THEN q * unit ELSE (q + 1) * unit

\* math.sqrt on integers: the largest r with r * r <= x
RECURSIVE SqrtBetween(_, _, _)
SqrtBetween(x, lo, hi) ==
    IF lo >= hi THEN lo
    ELSE LET mid == (lo + hi + 1) \div 2
         IN IF mid * mid <= x THEN SqrtBetween(x, mid, hi)
            ELSE SqrtBetween(x, lo, mid - 1)

ISqrt(x) == SqrtBetween(x, 0, 46340)

\* math.exp in fixed point: argument and value in 1/10000, by the power
\* series, each term from the one before
ExpScale == 10000
ExpTerms == 16

RECURSIVE ExpSeries(_, _, _)
ExpSeries(z, n, term) ==
    IF n > ExpTerms \/ term = 0 THEN 0
    ELSE term + ExpSeries(z, n + 1, (term * z) \div (ExpScale * n))

Exp(z) == ExpSeries(z, 1, ExpScale)

\* ------------------------------------------------------------- constants
Stations == {"HatYai", "Sadao", "Kallayanamit"}

\* STATION_METADATA[...]['id']
StationId == [s \in Stations |->
                 CASE s = "HatYai" -> 2585
                   [] s = "Sadao" -> 2590
                   [] s = "Kallayanamit" -> 2589]

\* STATION_METADATA.get(station_id, {}).get('min_valid_level', -5.0), in cm
DefaultMinValid == -500
MinValidLevel(station) ==
    CASE station = "HatYai" -> -200
      [] station = "Sadao" -> -150
      [] station = "Kallayanamit" -> -180
      [] OTHER -> DefaultMinValid

\* STATION_METADATA['Sadao']['bank_full_capacity'], in cm
SadaoBankFull == 900

\* station_mapping.get(id): the station name, or NoName for an id not in it
StationMapping(id) ==
    IF \E s \in Stations : StationId[s] = id
    THEN CHOOSE s \in Stations : StationId[s] = id
    ELSE NoName

primary_station_id == StationId["HatYai"]

\* API_CONFIG['thaiwater']['cache_minutes']
cache_minutes == 15

\* Asia/Bangkok is UTC+7 all year (SYSTEM_CONFIG['timezone'])
BangkokOffset == 420

\* ------------------------------------------------------------ raw values
\* A raw JSON value: absent/null, a number, numeric text, empty text or
\* text that float() rejects.
RawNone == [kind |-> "none", v |-> 0]
RawNum(x) == [kind |-> "num", v |-> x]
RawText(x) == [kind |-> "text", v |-> x]
RawEmpty == [kind |-> "empty", v |-> 0]
RawBad == [kind |-> "bad", v |-> 0]

\* Python truthiness, as used by `a or b or c`
Truthy(raw) ==
    CASE raw.kind = "none" -> FALSE
      [] raw.kind = "empty" -> FALSE
      [] raw.kind = "num" -> raw.v # 0
      [] OTHER -> TRUE

OrChain(a, b, c) == IF Truthy(a) THEN a ELSE IF Truthy(b) THEN b ELSE c

\* float(val): the number, or a ValueError for text that is not a number
FloatFails(raw) == raw.kind \in {"empty", "bad"}

clean_value_noThreshold(val, station_id) ==
    IF val.kind = "none" THEN None
    ELSE IF FloatFails(val) THEN None
    ELSE val.v

clean_value_inclusive(val, station_id) ==
    IF val.kind = "none" THEN None
    ELSE IF FloatFails(val) THEN None
    ELSE IF val.v >= MinValidLevel(station_id) THEN val.v ELSE None

clean_value(val, station_id) ==
    IF val.kind = "none" THEN None
    ELSE IF FloatFails(val) THEN None
    ELSE IF val.v > MinValidLevel(station_id) THEN val.v ELSE None

\* ------------------------------------------------------------ timestamps
\* A timestamp text: absent, unparseable, or one of the accepted formats
\* spelling the wall-clock minute `wall`.
TsNone == [kind |-> "none", wall |-> 0]
TsBad == [kind |-> "bad", wall |-> 0]
TsOk(w) == [kind |-> "ok", wall |-> w]

\* get_bangkok_time(): the current instant, carried as an aware datetime
get_bangkok_time(clock) == clock

\* parse_timestamp: a naive wall-clock reading is localized to Bangkok;
\* anything else falls back to the current time.
parse_timestamp(ts_str, clock) ==
    IF ts_str.kind = "ok" THEN ts_str.wall - BangkokOffset
    ELSE get_bangkok_time(clock)

\* ts.strftime('%Y-%m-%d %H:%M:%S') of a Bangkok-aware datetime
Strftime(instant) == instant + BangkokOffset

\* SQLite datetime('now', '-N minutes'): UTC wall-clock text
SqliteNowMinus(clock, minutes) == clock - minutes

\* ----------------------------------------------------------------- state
VARIABLES
    now,            \* the wall clock, as a UTC instant in minutes
    water_levels,   \* table water_levels, rows in id (insertion) order
    pc,             \* per session: position inside fetch_and_store_data
    result,         \* per session: the snapshot its last fetch returned
    cv,             \* the last stand-alone clean_value call: argument, station, value
    latest,         \* what the last get_latest_data call returned
    rates,          \* what the last calculate_rate_of_change call returned
    report,         \* per session: what its last analyze_flood_risk call returned
    done,           \* the operation the latest step performed, the session (0: none);
                    \* for check_zombie_data also the call: arguments, input afterwards, results
    risk_logs,      \* table risk_logs, rows in id order
    cached_model,   \* the predictor's _cached_model, _cached_model_lag, _cached_model_time
    train,          \* per caller: its train_prediction_model call and what it returned
    preds,          \* per caller: what its last predict_next_hours call returned
    qa,             \* the last compute_qa_flags call: arguments and result
    cycle           \* the last dashboard run: inputs, store before it, outputs

vars == <<now, water_levels, pc, result, cv, latest, rates, report, done,
          risk_logs, cached_model, train, preds, qa, cycle>>

\* the predictor's model cache and its callers
modelVars == <<cached_model, train, preds>>
\* the records of the last QA call and dashboard run
callVars == <<qa, cycle>>

Done(op, p) == [op |-> op, p |-> p]

Row(ts, st, lv) == [timestamp |-> ts, station_id |-> st, level |-> lv]

\* UNIQUE(timestamp, station_id)
HasKey(rows, ts, st) ==
    \E i \in 1..Len(rows) : rows[i].timestamp = ts /\ rows[i].station_id = st

InsertPlain(rows, ts, st, lv) == Append(rows, Row(ts, st, lv))

\* INSERT OR IGNORE INTO water_levels (timestamp, station_id, level)
InsertOrIgnore(rows, ts, st, lv) ==
    IF HasKey(rows, ts, st) THEN rows ELSE Append(rows, Row(ts, st, lv))

\* dict with one key set
DictSet(d, k, v) == [x \in (DOMAIN d) \cup {k} |-> IF x = k THEN v ELSE d[x]]
DictGet(d, k) == IF k \in DOMAIN d THEN d[k] ELSE None
EmptyDict == [x \in {} |-> None]

\* the `result` dict fetch_and_store_data starts from
EmptyResult ==
    [level |-> None, station_code |-> None, station_name |-> NoName,
     timestamp |-> None, is_fallback |-> TRUE, all_data |-> EmptyDict]

\* ------------------------------------------------ fetch: the cache branch
\* SELECT ... WHERE timestamp >= datetime('now', '-15 minutes')
CacheRows(rows, clock) ==
    {i \in 1..Len(rows) : rows[i].timestamp >= SqliteNowMinus(clock, cache_minutes)}

\* rows[0][0] under ORDER BY timestamp DESC
LatestTsStr(rows, clock) ==
    CHOOSE t \in {rows[i].timestamp : i \in CacheRows(rows, clock)} :
        \A i \in CacheRows(rows, clock) : rows[i].timestamp <= t

CachedAllData(rows, clock) ==
    LET latest_ts_str == LatestTsStr(rows, clock)
        hit == {i \in CacheRows(rows, clock) : rows[i].timestamp = latest_ts_str}
    IN [s \in {rows[i].station_id : i \in hit} |->
           rows[CHOOSE i \in hit : rows[i].station_id = s
                                   /\ \A j \in hit : rows[j].station_id = s => j <= i].level]

\* the cache branch reporting every primary as the regular one
CachedResultNoFallback(rows, clock) ==
    LET all == CachedAllData(rows, clock)
        ts == parse_timestamp(TsOk(LatestTsStr(rows, clock)), clock)
    IN IF "HatYai" \in DOMAIN all
       THEN [level |-> all["HatYai"], station_code |-> primary_station_id,
             station_name |-> "HatYai", timestamp |-> ts,
             is_fallback |-> FALSE, all_data |-> all]
       ELSE IF "Sadao" \in DOMAIN all
       THEN [level |-> all["Sadao"], station_code |-> StationId["Sadao"],
             station_name |-> "Sadao", timestamp |-> ts,
             is_fallback |-> FALSE, all_data |-> all]
       ELSE [EmptyResult EXCEPT !.timestamp = ts, !.all_data = all]

CachedResult(rows, clock) ==
    LET all == CachedAllData(rows, clock)
        ts == parse_timestamp(TsOk(LatestTsStr(rows, clock)), clock)
    IN IF "HatYai" \in DOMAIN all
       THEN [level |-> all["HatYai"], station_code |-> primary_station_id,
             station_name |-> "HatYai", timestamp |-> ts,
             is_fallback |-> FALSE, all_data |-> all]
       ELSE IF "Sadao" \in DOMAIN all
       THEN [level |-> all["Sadao"], station_code |-> StationId["Sadao"],
             station_name |-> "Sadao", timestamp |-> ts,
             is_fallback |-> TRUE, all_data |-> all]
       ELSE [EmptyResult EXCEPT !.timestamp = ts, !.all_data = all]

\* -------------------------------------------------- fetch: the API branch
\* One entry of the gauge payload.  station = 0 stands for every entry the
\* loop skips (not a dict, no station dict, id not in station_mapping).
Entry(id, msl, wl, val, wdt, dt) ==
    [station |-> id, waterlevel_msl |-> msl, waterlevel |-> wl, value |-> val,
     waterlevel_datetime |-> wdt, datetime |-> dt]

TsTruthy(t) == t.kind # "none"

\* one iteration of `for entry in entries`
ProcessEntry(entry, acc, clock) ==
    LET station_name == StationMapping(entry.station)
        raw_val == OrChain(entry.waterlevel_msl, entry.waterlevel, entry.value)
        val_float == clean_value(raw_val, station_name)
        timestamp_str == IF TsTruthy(entry.waterlevel_datetime)
                         THEN entry.waterlevel_datetime ELSE entry.datetime
        ts == IF TsTruthy(timestamp_str) THEN parse_timestamp(timestamp_str, clock)
              ELSE get_bangkok_time(clock)
        ts_str == Strftime(ts)
        res == acc.result
        all == DictSet(res.all_data, station_name, val_float)
    IN IF station_name = NoName THEN acc
       ELSE IF val_float = None THEN acc
       ELSE [rows |-> InsertOrIgnore(acc.rows, ts_str, station_name, val_float),
             executed |-> TRUE,
             result |->
                IF res.level = None \/ entry.station = primary_station_id
                THEN [level |-> val_float, station_code |-> entry.station,
                      station_name |-> station_name, timestamp |-> ts,
                      is_fallback |-> (entry.station # primary_station_id),
                      all_data |-> all]
                ELSE [res EXCEPT !.all_data = all]]

RECURSIVE ProcessEntries(_, _, _)
ProcessEntries(entries, acc, clock) ==
    IF entries = <<>> THEN acc
    ELSE ProcessEntries(Tail(entries), ProcessEntry(Head(entries), acc, clock), clock)


\* ------------------------------------------------------- get_latest_data
\* insertion of a row into a sequence ordered by timestamp (ORDER BY
\* timestamp ASC; rows with equal timestamps stay in id order)
RECURSIVE InsertByTs(_, _)
InsertByTs(sorted, r) ==
    IF sorted = <<>> THEN <<r>>
    ELSE IF r.timestamp < Head(sorted).timestamp THEN <<r>> \o sorted
    ELSE <<Head(sorted)>> \o InsertByTs(Tail(sorted), r)

RECURSIVE OrderByTs(_)
OrderByTs(rows) ==
    IF rows = <<>> THEN <<>>
    ELSE InsertByTs(OrderByTs(SubSeq(rows, 1, Len(rows) - 1)), rows[Len(rows)])

\* WHERE timestamp >= datetime('now', '-{hours} hours')
InSqlWindow(r, hours, clock) == r.timestamp >= SqliteNowMinus(clock, hours * 60)

InSqlWindowLocal(r, hours, clock) ==
    r.timestamp >= Strftime(get_bangkok_time(clock)) - hours * 60

\* the station-specific validation of the rows read back
PassesThreshold(r) == r.level > MinValidLevel(r.station_id)

\* the rows get_latest_data returns: timestamps parsed to aware datetimes
get_latest_data_unordered(rows, hours, clock) ==
    LET kept == SelectSeq(rows,
                    LAMBDA r : InSqlWindow(r, hours, clock) /\ PassesThreshold(r))
    IN [i \in 1..Len(kept) |->
           [kept[i] EXCEPT !.timestamp = parse_timestamp(TsOk(@), clock)]]

get_latest_data(rows, hours, clock) ==
    LET kept == SelectSeq(OrderByTs(rows),
                    LAMBDA r : InSqlWindow(r, hours, clock) /\ PassesThreshold(r))
    IN [i \in 1..Len(kept) |->
           [kept[i] EXCEPT !.timestamp = parse_timestamp(TsOk(@), clock)]]

\* ---------------------------------------------- calculate_rate_of_change
\* A slope is the exact fraction n/d in cm per hour, d > 0.
Rate(n, d) == [n |-> n, d |-> d]
ZeroRate == Rate(0, 1)
RateGt(r, n, d) == r.n * d > n * r.d      \* r > n/d
RateLt(r, n, d) == r.n * d < n * r.d      \* r < n/d
RateEq(r, n, d) == r.n * d = n * r.d      \* r = n/d

\* timedelta(hours=1.5), in minutes
RecentWindow == 90
\* the 0.1 h below which no slope is computed, in minutes
MinElapsed == 6

StationRate(df, station, clock) ==
    LET station_df == SelectSeq(df, LAMBDA r : r.station_id = station)
        recent_df == SelectSeq(station_df,
                        LAMBDA r : r.timestamp >= get_bangkok_time(clock) - RecentWindow)
        last_row == recent_df[Len(recent_df)]
        first_row == recent_df[1]
        level_diff == last_row.level - first_row.level
        time_diff == last_row.timestamp - first_row.timestamp
    IN IF Len(recent_df) >= 2
       THEN IF time_diff > MinElapsed THEN Rate(level_diff * 60, time_diff)
            ELSE ZeroRate
       ELSE ZeroRate

calculate_rate_of_change(rows, clock) ==
    LET df == get_latest_data(rows, 2, clock)
    IN [s \in {df[i].station_id : i \in 1..Len(df)} |-> StationRate(df, s, clock)]

\* ------------------------------------------------------- risk parameters
\* RAINFALL_THRESHOLDS, in tenths of a millimetre
light_daily == 100
moderate_daily == 300
heavy_daily == 600
extreme_daily == 1000
catastrophic_24h == 2500

\* RISK_CALCULATION: steepness in tenths, inflection in cm, weights in
\* tenths, break points in thousandths of a percent
sigmoid_k == 8
sigmoid_x0 == 950
rainfall_weight == 4
water_level_weight == 6
normal_max == 30000
warning_max == 70000
critical_min == 71000

Percent100 == 100000

\* RIVER_HYDRAULICS: velocities in 1/10000 m/s, distance in metres, lag in hours
base_velocity_dry == 3000
base_velocity_normal == 8000
base_velocity_wet == 12000
max_velocity == 25000
min_velocity == 1000
actual_distance_m == 84000
runoff_delay_hours == 8

\* HISTORICAL_EVENTS[year]['rain_mm_3d'], in tenths of a millimetre, in dict order
HistoricalYears == <<2010, 2017, 2022>>
HistoricalRain3d(year) ==
    CASE year = 2010 -> 8500
      [] year = 2017 -> 4200
      [] year = 2022 -> 2500

\* ------------------------------------------------------------ sigmoid_risk
\* normalized_level = (water_level - 5.0) / 10.0 and x0 / 10.0, in 1/1000;
\* the exponent -k * (normalized_level - x0/10) in 1/10000
sigmoid_risk_unclamped(water_level) ==
    LET normalized_level == water_level - 500
        z == -sigmoid_k * (normalized_level - sigmoid_x0)
    IN (Percent100 * ExpScale) \div (ExpScale + Exp(z)) + Percent100

sigmoid_risk(water_level) ==
    LET normalized_level == water_level - 500
        z == -sigmoid_k * (normalized_level - sigmoid_x0)
        risk == (Percent100 * ExpScale) \div (ExpScale + Exp(z))
    IN Max(0, Min(Percent100, risk))

\* --------------------------------------------------- the risk fusion steps
\* 1. rain risk: min(rain_sum / catastrophic_24h * 100, 100)
RainRiskUncapped(rain_sum) == (rain_sum * Percent100) \div catastrophic_24h

RainRisk(rain_sum) == Min((rain_sum * Percent100) \div catastrophic_24h, Percent100)

\* 2./3. water risk and the weighted fusion
FinalRisk(current_level, rain_sum) ==
    IF current_level # None
    THEN (RainRisk(rain_sum) * rainfall_weight
          + sigmoid_risk(current_level) * water_level_weight) \div 10
    ELSE RainRisk(rain_sum)

ConfidenceFlat(current_level) == 90

Confidence(current_level) == IF current_level # None THEN 90 ELSE 65

\* "Hybrid (<station_code>)" or "Virtual (Rain Only)"
Source(sensor_data) ==
    IF sensor_data.level # None
    THEN [mode |-> "Hybrid", station_code |-> sensor_data.station_code]
    ELSE [mode |-> "Virtual (Rain Only)", station_code |-> None]

\* 4. alert tier
AlertLevelBanded(final_risk) ==
    IF final_risk > warning_max THEN "CRITICAL"
    ELSE IF final_risk > normal_max THEN "WARNING"
    ELSE "NORMAL"

AlertLevel(final_risk) ==
    IF final_risk > critical_min THEN "CRITICAL"
    ELSE IF final_risk > warning_max THEN "WARNING"
    ELSE "NORMAL"

\* 5. outlook over the first three days of the daily series
Outlook(rain_data) ==
    LET daily_rain == rain_data.raw_daily
        rain_sum == rain_data.rain_sum_3d
        d1 == daily_rain[1]
        d2 == daily_rain[2]
        d3 == daily_rain[3]
        max_val == Max(d1, Max(d2, d3))
    IN IF Len(daily_rain) >= 3
       THEN [trend |-> IF d2 > d1 + light_daily THEN "Rising"
                       ELSE IF d2 < d1 - light_daily THEN "Falling"
                       ELSE "Stable",
             max_idx |-> IF d1 = max_val THEN 0 ELSE IF d2 = max_val THEN 1 ELSE 2,
             max_rain_val |-> max_val,
             summary_en |->
                IF rain_sum < light_daily THEN "Dry spell, no flood risk."
                ELSE IF rain_sum < moderate_daily THEN "Light scattered rain."
                ELSE IF rain_sum < heavy_daily THEN "Moderate rain, drains should cope."
                ELSE IF rain_sum < extreme_daily THEN "Heavy rain ahead! Stay alert."
                ELSE "EXTREME RAIN. FLOOD LIKELY."]
       ELSE [trend |-> "Analyzing...", max_idx |-> None, max_rain_val |-> 0,
             summary_en |-> "Waiting for data..."]

\* ------------------------------------------------- calculate_flow_velocity
\* depth_ratio and velocity_factor in 1/10000
calculate_flow_velocity(water_level, bank_full, base_velocity) ==
    IF water_level <= 0 THEN base_velocity \div 2
    ELSE LET depth_ratio == Min((water_level * 10000) \div bank_full, 15000)
             velocity_factor == ISqrt(depth_ratio * 10000)
             velocity == (base_velocity * velocity_factor) \div 10000
         IN Min(velocity, max_velocity)

\* calculate_eta_hours, in tenths of an hour (truncated)
calculate_eta_hours(distance_m, velocity_ms, lag_hours) ==
    (distance_m * 10000) \div (360 * velocity_ms) + lag_hours * 10

\* -------------------------------------- estimate_time_to_impact_hydraulic
NoDataEta ==
    [status |-> "ok", eta_hours |-> 0, velocity_ms |-> 0,
     confidence |-> "Low (No upstream data)", sadao_rising |-> FALSE,
     sadao_level |-> None]

RaisedEta == [NoDataEta EXCEPT !.status = "raised", !.confidence = "raised"]

\* velocity = max(0.1, min(velocity, max_velocity))
ClampVelocityUpperOnly(velocity) == Min(velocity, max_velocity)

ClampVelocity(velocity) == Max(min_velocity, Min(velocity, max_velocity))

\* the momentum tiers without the rapid-rise tier
MomentumFactorModerate(sadao_roc) ==
    IF RateGt(sadao_roc, 20, 1) THEN 11
    ELSE IF RateLt(sadao_roc, -10, 1) THEN 8
    ELSE 10

\* the momentum factor, in tenths
MomentumFactor(sadao_roc) ==
    IF RateGt(sadao_roc, 50, 1) THEN 13
    ELSE IF RateGt(sadao_roc, 20, 1) THEN 11
    ELSE IF RateLt(sadao_roc, -10, 1) THEN 8
    ELSE 10

estimate_time_to_impact_hydraulic(sensor_data, rows, clock, readable) ==
    LET sadao_level == DictGet(sensor_data.all_data, "Sadao")
        base_velocity ==
            IF 2 * sadao_level <= SadaoBankFull THEN base_velocity_dry
            ELSE IF sadao_level <= SadaoBankFull THEN base_velocity_normal
            ELSE base_velocity_wet
        hydraulic == calculate_flow_velocity(sadao_level, SadaoBankFull, base_velocity)
        roc == calculate_rate_of_change(rows, clock)
        sadao_roc == IF "Sadao" \in DOMAIN roc THEN roc["Sadao"] ELSE ZeroRate
        velocity == ClampVelocity((hydraulic * MomentumFactor(sadao_roc)) \div 10)
        eta_hours == calculate_eta_hours(actual_distance_m, velocity, runoff_delay_hours)
    IN IF sadao_level = None THEN NoDataEta
       ELSE IF ~readable THEN RaisedEta
       ELSE [status |-> "ok",
             eta_hours |-> eta_hours,
             velocity_ms |-> RoundTo(velocity, 100),
             confidence |->
                IF sadao_level > SadaoBankFull /\ RateGt(sadao_roc, 0, 1) THEN "High"
                ELSE IF 10 * sadao_level > 8 * SadaoBankFull THEN "Medium"
                ELSE "Low",
             sadao_rising |-> RateGt(sadao_roc, 0, 1),
             sadao_level |-> sadao_level]

\* -------------------------------------- get_historical_comparison_enhanced
RECURSIVE NearestEvent(_, _, _)
NearestEvent(current_rain_3d, i, best) ==
    IF i > Len(HistoricalYears) THEN best
    ELSE LET year == HistoricalYears[i]
             diff == Abs(HistoricalRain3d(year) - current_rain_3d)
         IN IF best = None \/ diff < Abs(HistoricalRain3d(best) - current_rain_3d)
            THEN NearestEvent(current_rain_3d, i + 1, year)
            ELSE NearestEvent(current_rain_3d, i + 1, best)

get_historical_comparison_enhanced(current_rain_3d) ==
    IF current_rain_3d <= 0
    THEN [nearest_event |-> None, percentage |-> 0, severity |-> "NONE"]
    ELSE [nearest_event |-> NearestEvent(current_rain_3d, 1, None),
          percentage |-> RoundTo((current_rain_3d * 1000) \div 85, 100),
          severity |->
             IF current_rain_3d < 500 THEN "LOW"
             ELSE IF current_rain_3d < 1500 THEN "MINOR"
             ELSE IF current_rain_3d < 3000 THEN "MODERATE"
             ELSE IF current_rain_3d < 4500 THEN "HIGH"
             ELSE "CRITICAL"]

\* ------------------------------------------- generate_situation_summary
generate_situation_summary(rain_sum, sensor_data, risk_score, eta) ==
    LET sadao == DictGet(sensor_data.all_data, "Sadao")
    IN [headline |->
           IF risk_score > 70000 THEN "CRITICAL"
           ELSE IF risk_score > 30000 THEN "WATCH"
           ELSE "NORMAL",
        rain_context |->
           IF rain_sum * 100 < 10 * 3500 THEN "Low compared to 2010"
           ELSE IF rain_sum * 100 < 50 * 3500 THEN "Moderate, monitoring required"
           ELSE "HIGH! Approaching historic flood",
        upstream |->
           IF sadao = None THEN "offline"
           ELSE IF sadao < 900 THEN "normal"
           ELSE "arriving",
        action |->
           IF risk_score > 70000 \/ (sadao # None /\ sadao > 900)
           THEN "Move assets to high ground immediately."
           ELSE IF risk_score > 30000 THEN "Monitor hourly updates. Check emergency kit."
           ELSE "Monitor daily weather news."]

\* ------------------------------------------------------ analyze_flood_risk
NoReport ==
    [status |-> "none", primary_risk |-> None, alert_level |-> NoName,
     main_message_en |-> NoName, data_source |-> Source(EmptyResult),
     confidence_score |-> None, is_sensor_active |-> FALSE, rain_sum |-> None,
     current_level |-> None, outlook |-> Outlook([raw_daily |-> <<>>, rain_sum_3d |-> 0]),
     eta |-> NoDataEta, history |-> get_historical_comparison_enhanced(0),
     summary_report |-> generate_situation_summary(0, EmptyResult, 0, NoDataEta)]

MainMessage(alert_level) ==
    CASE alert_level = "CRITICAL" -> "CRITICAL: High flood probability"
      [] alert_level = "WARNING" -> "WARNING: Elevated rain accumulation"
      [] OTHER -> "NORMAL: All systems green"

analyze_flood_risk(sensor_data, rain_data, rows, clock, readable) ==
    LET rain_sum == rain_data.rain_sum_3d
        current_level == sensor_data.level
        final_risk == FinalRisk(current_level, rain_sum)
        alert_level == AlertLevel(final_risk)
        eta == estimate_time_to_impact_hydraulic(sensor_data, rows, clock, readable)
    IN IF eta.status = "raised" THEN [NoReport EXCEPT !.status = "raised"]
       ELSE [status |-> "ok",
             primary_risk |-> RoundTo(final_risk, 100),
             alert_level |-> alert_level,
             main_message_en |-> MainMessage(alert_level),
             data_source |-> Source(sensor_data),
             confidence_score |-> Confidence(current_level),
             is_sensor_active |-> (sensor_data.level # None),
             rain_sum |-> RoundTo(rain_sum, 1),
             current_level |-> current_level,
             outlook |-> Outlook(rain_data),
             eta |-> eta,
             history |-> get_historical_comparison_enhanced(rain_sum),
             summary_report |->
                generate_situation_summary(rain_sum, sensor_data, final_risk, eta)]

\* ------------------------------------------------------- check_zombie_data
RECURSIVE NullifyOutages(_, _)
NullifyOutages(modified_data, outage_stations) ==
    IF outage_stations = <<>> THEN modified_data
    ELSE LET station_name == Head(outage_stations)
             all == IF station_name \in DOMAIN modified_data.all_data
                    THEN [modified_data.all_data EXCEPT ![station_name] = None]
                    ELSE modified_data.all_data
             m1 == [modified_data EXCEPT !.all_data = all]
             m2 == IF m1.station_name = station_name
                   THEN [m1 EXCEPT !.level = None, !.is_fallback = TRUE]
                   ELSE m1
         IN NullifyOutages(m2, Tail(outage_stations))

check_zombie_data(api_sensor_data, scraper_result) ==
    IF ~scraper_result.success THEN api_sensor_data
    ELSE NullifyOutages(api_sensor_data, scraper_result.outage_stations)

\* ------------------------------------------------- the hourly series
\* a missing value (NaN): an empty hour bin, an undefined correlation
NaN == -2000000

RECURSIVE FnSum(_)
FnSum(f) ==
    IF DOMAIN f = {} THEN 0
    ELSE LET x == CHOOSE x \in DOMAIN f : TRUE
         IN f[x] + FnSum([y \in (DOMAIN f) \ {x} |-> f[y]])

\* the station columns of a frame of readings
Columns(df) == {df[i].station_id : i \in 1..Len(df)}

\* df.pivot_table(index='timestamp', columns='station_id', values='level')
\* .dropna(): the instants at which every station of the frame has a reading
PivotIndex(df) ==
    {t \in {df[i].timestamp : i \in 1..Len(df)} :
        \A s \in Columns(df) :
            \E i \in 1..Len(df) : df[i].timestamp = t /\ df[i].station_id = s}

PivotValue(df, t, s) ==
    LET at == {i \in 1..Len(df) : df[i].timestamp = t /\ df[i].station_id = s}
    IN FnSum([i \in at |-> df[i].level]) \div Cardinality(at)

\* .resample('1h').mean(): the mean of an hour's readings, NaN for an empty hour
BinMean(df, idx, s, h) ==
    LET ts == {t \in idx : t \div 60 = h}
    IN IF ts = {} THEN NaN
       ELSE FnSum([t \in ts |-> PivotValue(df, t, s)]) \div Cardinality(ts)

\* .interpolate(): an empty hour lies on the line between its neighbours
Interpolate(f) ==
    [h \in DOMAIN f |->
        IF f[h] # NaN THEN f[h]
        ELSE LET a == CHOOSE a \in DOMAIN f :
                        /\ a < h /\ f[a] # NaN
                        /\ \A c \in DOMAIN f : (c < h /\ f[c] # NaN) => c <= a
                 b == CHOOSE b \in DOMAIN f :
                        /\ b > h /\ f[b] # NaN
                        /\ \A c \in DOMAIN f : (c > h /\ f[c] # NaN) => c >= b
             IN f[a] + ((f[b] - f[a]) * (h - a)) \div (b - a)]

\* the hourly frame over the instants idx: its first hour, and per station
\* the sequence of hourly values from that hour on
Hourly(df, idx, cols) ==
    IF idx = {} THEN [start |-> 0, len |-> 0, v |-> [s \in cols |-> <<>>]]
    ELSE LET hours == {t \div 60 : t \in idx}
             lo == CHOOSE h \in hours : \A g \in hours : h <= g
             hi == CHOOSE h \in hours : \A g \in hours : h >= g
             line(s) == Interpolate([h \in lo..hi |-> BinMean(df, idx, s, h)])
         IN [start |-> lo, len |-> hi - lo + 1,
             v |-> [s \in cols |-> [i \in 1..(hi - lo + 1) |-> line(s)[lo + i - 1]]]]

\* ------------------------------------------------- train_prediction_model
\* the model cache lives 1800 s
ModelTtl == 30
\* range(1, 13)
MaxLag == 12
\* len(data) < 5
MinTrainRows == 5

\* the length test accepting every frame that is not empty
TooFewRowsEmptyOnly(rows_left) == rows_left < 1

TooFewRows(rows_left) == rows_left < MinTrainRows

\* the aligned pairs (HatYai[i], Sadao[i - lag]), as deviations from the
\* first value of each series
LaggedX(S, lag) == [k \in 1..Max(Len(S) - lag, 0) |-> S[k] - S[1]]
LaggedY(H, lag) == [k \in 1..Max(Len(H) - lag, 0) |-> H[k + lag] - H[1]]

Products(xs, ys) == [k \in 1..Len(xs) |-> xs[k] * ys[k]]

\* n * sum(xy) - sum(x) * sum(y)
Covariance(xs, ys) ==
    Len(xs) * SumSeq(Products(xs, ys)) - SumSeq(xs) * SumSeq(ys)

\* Series.corr of HatYai with Sadao shifted by lag, in thousandths; NaN with
\* fewer than two aligned pairs or a constant series
Corr(H, S, lag) ==
    LET xs == LaggedX(S, lag)
        ys == LaggedY(H, lag)
        cov == Covariance(xs, ys)
        vx == Covariance(xs, xs)
        vy == Covariance(ys, ys)
        mag == (Abs(cov) * 1000) \div ISqrt(vx * vy)
    IN IF Len(xs) < 2 \/ vx = 0 \/ vy = 0 THEN NaN
       ELSE IF cov >= 0 THEN mag ELSE -mag

\* for lag in range(1, 13): if corr > max_corr: ...
RECURSIVE BestLagFrom(_, _, _, _, _)
BestLagFrom(H, S, lag, max_corr, best_lag) ==
    IF lag > MaxLag THEN best_lag
    ELSE LET corr == Corr(H, S, lag)
         IN IF corr # NaN /\ corr > max_corr
            THEN BestLagFrom(H, S, lag + 1, corr, lag)
            ELSE BestLagFrom(H, S, lag + 1, max_corr, best_lag)

BestLag(H, S) == BestLagFrom(H, S, 1, -1000, 0)

\* no model (Python None)
NoModel == [kind |-> "None", n |-> 0, x0 |-> 0, y0 |-> 0, sx |-> 0, sy |-> 0,
            cov |-> 0, vx |-> 0]

\* LinearRegression().fit(X, y): the least-squares line through the pairs,
\* kept as the sums that determine it
Fit(H, S, lag) ==
    LET xs == LaggedX(S, lag)
        ys == LaggedY(H, lag)
    IN [kind |-> "LinearRegression", n |-> Len(xs), x0 |-> S[1], y0 |-> H[1],
        sx |-> SumSeq(xs), sy |-> SumSeq(ys),
        cov |-> Covariance(xs, ys), vx |-> Covariance(xs, xs)]

\* model.predict([[x]])[0]: mean(y) + slope * (x - mean(x)); the slope of a
\* constant regressor is 0
ModelPredict(model, x) ==
    LET dx == model.n * (x - model.x0) - model.sx
    IN IF model.vx = 0 THEN model.y0 + model.sy \div model.n
       ELSE model.y0
            + (model.sy * model.vx + model.cov * dx) \div (model.n * model.vx)

\* the part of train_prediction_model after the cache test: (model, lag)
TrainFromStore(rows, clock) ==
    LET df == get_latest_data(rows, 168, clock)
        df_hourly == Hourly(df, PivotIndex(df), Columns(df))
        H == df_hourly.v["HatYai"]
        S == df_hourly.v["Sadao"]
        best_lag == BestLag(H, S)
    IN IF df = <<>> THEN [model |-> NoModel, lag |-> 0]
       ELSE IF "HatYai" \notin Columns(df) \/ "Sadao" \notin Columns(df)
       THEN [model |-> NoModel, lag |-> 0]
       ELSE IF TooFewRows(Max(df_hourly.len - best_lag, 0))
       THEN [model |-> NoModel, lag |-> 0]
       ELSE [model |-> Fit(H, S, best_lag), lag |-> best_lag]

\* the cache test with a lifetime of one hour
CacheFreshHour(cache, clock) ==
    /\ cache.model # NoModel
    /\ cache.time # None
    /\ clock - cache.time < 2 * ModelTtl

\* the cache test at the head of train_prediction_model
CacheFresh(cache, clock) ==
    /\ cache.model # NoModel
    /\ cache.time # None
    /\ clock - cache.time < ModelTtl

\* --------------------------------------------------- predict_next_hours
\* hours = 3 (the default, and what the dashboard passes)
PredictHours == 3

\* the row of df_sadao nearest in time to the target (the first of equals)
NearestIdx(start, len, target) ==
    CHOOSE i \in 1..len :
        \A j \in 1..len :
            \/ Abs((start + i - 1) * 60 - target) < Abs((start + j - 1) * 60 - target)
            \/ (Abs((start + i - 1) * 60 - target) = Abs((start + j - 1) * 60 - target)
                /\ i <= j)

RECURSIVE PredictLoop(_, _, _, _, _, _)
PredictLoop(model, lag, df_sadao, current_time, h, lookup_ok) ==
    IF h > PredictHours THEN <<>>
    ELSE LET future_time == current_time + h * 60
             target_sadao_time == future_time - lag * 60
             sadao_val == df_sadao.v["Sadao"][NearestIdx(df_sadao.start, df_sadao.len,
                                                        target_sadao_time)]
             rest == PredictLoop(model, lag, df_sadao, current_time, h + 1, lookup_ok)
         IN IF df_sadao.len > 0 /\ lookup_ok
            THEN <<[time |-> future_time,
                    level |-> ModelPredict(model, sadao_val),
                    confidence |-> IF lag <= 6 THEN "Medium" ELSE "Low"]>> \o rest
            ELSE rest

\* predict_next_hours after its call of train_prediction_model returned
\* (model, lag).  lookup_ok: whether the nearest-row lookup (idxmin on the
\* index differences) is available; where it is not, each hour's attempt
\* raises inside the try and is skipped.
PredictFrom(model, lag, rows, clock, readable, lookup_ok) ==
    LET df == get_latest_data(rows, lag + PredictHours + 24, clock)
        sadao == SelectSeq(df, LAMBDA r : r.station_id = "Sadao")
        df_sadao == Hourly(sadao, {sadao[i].timestamp : i \in 1..Len(sadao)}, {"Sadao"})
    IN IF model = NoModel THEN [status |-> "ok", value |-> <<>>]
       ELSE IF ~readable THEN [status |-> "raised", value |-> <<>>]
       ELSE IF df = <<>> THEN [status |-> "ok", value |-> <<>>]
       ELSE [status |-> "ok",
             value |-> PredictLoop(model, lag, df_sadao, get_bangkok_time(clock), 1,
                                   lookup_ok)]

\* ------------------------------------------------------ compute_qa_flags
\* models/qa.py: thresholds in hours and in cm per hour
STALE_THRESHOLD_HOURS == 6
MAX_JUMP_M_PER_HOUR == 200

\* STATION_METADATA[...]['bank_full_capacity'], in cm
BankFull(station) ==
    CASE station = "HatYai" -> 1050
      [] station = "Sadao" -> 900
      [] station = "Kallayanamit" -> 1000

\* meta.get("ground_level"): no station of STATION_METADATA carries one
ConstGround(station) == None

\* the order of STATION_METADATA.items()
StationOrder == <<"HatYai", "Sadao", "Kallayanamit">>

\* last_update: absent, a naive wall-clock datetime (taken as Bangkok time)
\* or an aware datetime
LuNone == [kind |-> "none", t |-> 0]
LuNaive(w) == [kind |-> "naive", t |-> w]
LuAware(t) == [kind |-> "aware", t |-> t]

LastUpdateInstant(last_update) ==
    IF last_update.kind = "naive" THEN last_update.t - BangkokOffset
    ELSE last_update.t

\* bank_info.get(station_name, {}) with its two optional entries
NoBankInfo == [situation_level |-> None, ground_level |-> None]
BankInfoOf(sensor_data, station) ==
    IF "bank_info" \in DOMAIN sensor_data
    THEN IF station \in DOMAIN sensor_data.bank_info
         THEN sensor_data.bank_info[station] ELSE NoBankInfo
    ELSE NoBankInfo

\* the checks after the offline check, in order: the flag and its deduction
QaFindings(station, level, roc, last_update, bi, clock) ==
    LET stale == /\ last_update.kind # "none"
                 /\ clock - LastUpdateInstant(last_update) > STALE_THRESHOLD_HOURS * 60
        jump == RateGt(Rate(Abs(roc.n), roc.d), MAX_JUMP_M_PER_HOUR, 1)
        min_valid == MinValidLevel(station)
        max_valid == BankFull(station) + 500
        out_of_range == level < min_valid \/ level > max_valid
        sit_level == bi.situation_level
        logic_warn == sit_level # None /\ sit_level <= 1 /\ RateGt(roc, 50, 1)
        api_ground == bi.ground_level
        const_ground == ConstGround(station)
        datum_mismatch == /\ api_ground # None
                          /\ const_ground # None
                          /\ Abs(api_ground - const_ground) > 50
    IN (IF stale THEN <<[flag |-> "stale", minus |-> 30]>> ELSE <<>>)
       \o (IF jump THEN <<[flag |-> "jump", minus |-> 25]>> ELSE <<>>)
       \o (IF out_of_range THEN <<[flag |-> "out_of_range", minus |-> 40]>> ELSE <<>>)
       \o (IF logic_warn THEN <<[flag |-> "logic_warn", minus |-> 10]>> ELSE <<>>)
       \o (IF datum_mismatch THEN <<[flag |-> "datum_mismatch", minus |-> 20]>> ELSE <<>>)

\* the summary without the final clamp of the confidence
StationQaUnclamped(station, level, roc, last_update, bi, clock) ==
    LET found == QaFindings(station, level, roc, last_update, bi, clock)
        flags == [i \in 1..Len(found) |-> found[i].flag]
        confidence == 100 - SumSeq([i \in 1..Len(found) |-> found[i].minus])
    IN [flags |-> IF flags = <<>> THEN <<"ok">> ELSE flags,
        confidence |-> confidence]

StationQaChecked(station, level, roc, last_update, bi, clock) ==
    LET found == QaFindings(station, level, roc, last_update, bi, clock)
        flags == [i \in 1..Len(found) |-> found[i].flag]
        confidence == 100 - SumSeq([i \in 1..Len(found) |-> found[i].minus])
    IN [flags |-> IF flags = <<>> THEN <<"ok">> ELSE flags,
        confidence |-> Max(0, Min(100, confidence))]

\* the station loop without its offline branch: the later checks run on the
\* empty level
StationQaNoOffline(station, level, roc, last_update, bi, clock) ==
    StationQaChecked(station, level, roc, last_update, bi, clock)

StationQa(station, level, roc, last_update, bi, clock) ==
    IF level = None THEN [flags |-> <<"offline">>, confidence |-> 0]
    ELSE StationQaChecked(station, level, roc, last_update, bi, clock)

\* round(sum(station_scores) / len(station_scores))
OverallConfidence(station_scores) ==
    RoundTo(SumSeq(station_scores), Len(station_scores)) \div Len(station_scores)

OverallStatusExclusive(overall_confidence) ==
    IF overall_confidence > 80 THEN "ok"
    ELSE IF overall_confidence > 50 THEN "degraded"
    ELSE "critical"

OverallStatus(overall_confidence) ==
    IF overall_confidence >= 80 THEN "ok"
    ELSE IF overall_confidence >= 50 THEN "degraded"
    ELSE "critical"

compute_qa_flags(sensor_data, rate_of_change, last_update, clock) ==
    LET stations ==
            [s \in Stations |->
                StationQa(s, DictGet(sensor_data.all_data, s),
                          IF s \in DOMAIN rate_of_change THEN rate_of_change[s]
                          ELSE ZeroRate,
                          last_update, BankInfoOf(sensor_data, s), clock)]
        station_scores == [i \in 1..Len(StationOrder) |->
                              stations[StationOrder[i]].confidence]
        overall_confidence == OverallConfidence(station_scores)
    IN [stations |-> stations,
        overall_confidence |-> overall_confidence,
        overall_status |-> OverallStatus(overall_confidence)]

NoQa ==
    [stations |-> [s \in Stations |-> [flags |-> <<>>, confidence |-> None]],
     overall_confidence |-> None, overall_status |-> NoName]

\* zombie_report: the scraper-offline notice, or per nullified station the
\* value that was ignored
RECURSIVE ZombieValues(_, _, _)
ZombieValues(all_data, outage_stations, report_so_far) ==
    IF outage_stations = <<>> THEN report_so_far
    ELSE LET station_name == Head(outage_stations)
         IN IF station_name \in DOMAIN all_data
            THEN ZombieValues([all_data EXCEPT ![station_name] = None],
                              Tail(outage_stations),
                              DictSet(report_so_far, station_name, all_data[station_name]))
            ELSE ZombieValues(all_data, Tail(outage_stations), report_so_far)

ZombieReport(api_sensor_data, scraper_result) ==
    IF ~scraper_result.success
    THEN [scraper_offline |-> TRUE, zombies |-> EmptyDict]
    ELSE [scraper_offline |-> FALSE,
          zombies |-> ZombieValues(api_sensor_data.all_data,
                                   scraper_result.outage_stations, EmptyDict)]

\* what the call leaves in the caller's dict: with the all_data dict shared
\* between input and copy, the nullified values show in the input too
InputAfterShared(api_sensor_data, modified_data) ==
    [api_sensor_data EXCEPT !.all_data = modified_data.all_data]

\* modified_data = dict(api_sensor_data); modified_data["all_data"] =
\* dict(...): both levels are copied, the input keeps its values
InputAfter(api_sensor_data, modified_data) == api_sensor_data

\* one call: the returned pair, and the caller's input as the call leaves it
check_zombie_call(api_sensor_data, scraper_result) ==
    LET modified_data == check_zombie_data(api_sensor_data, scraper_result)
    IN [input |-> api_sensor_data,
        scraper_result |-> scraper_result,
        input_after |-> InputAfter(api_sensor_data, modified_data),
        data |-> modified_data,
        zombie_report |-> ZombieReport(api_sensor_data, scraper_result)]

\* -------------------------------------------------- _log_risk_assessment
\* one row of risk_logs; timestamp defaults to strftime(..., 'now') (UTC)
LogRow(rain, level, risk, alert, source, clock) ==
    [timestamp |-> clock, rain_forecast_3d |-> rain, sensor_level |-> level,
     risk_score |-> risk, alert_level |-> alert, data_source |-> source]

_log_risk_assessment_unguarded(logs, rain, level, risk, alert, source, clock, loggable) ==
    IF loggable
    THEN [logs |-> Append(logs, LogRow(rain, level, risk, alert, source, clock)),
          raised |-> FALSE]
    ELSE [logs |-> logs, raised |-> TRUE]

\* the INSERT inside try/except: a failure is printed, not raised
_log_risk_assessment(logs, rain, level, risk, alert, source, clock, loggable) ==
    IF loggable
    THEN [logs |-> Append(logs, LogRow(rain, level, risk, alert, source, clock)),
          raised |-> FALSE]
    ELSE [logs |-> logs, raised |-> FALSE]

\* analyze_flood_risk with its log write: the report, and risk_logs after it.
\* The estimate (step 6) comes before the log write (step 8).
analyze_and_log(sensor_data, rain_data, rows, logs, clock, readable, loggable) ==
    LET r == analyze_flood_risk(sensor_data, rain_data, rows, clock, readable)
        final_risk == FinalRisk(sensor_data.level, rain_data.rain_sum_3d)
        lg == _log_risk_assessment(logs, rain_data.rain_sum_3d, sensor_data.level,
                                  final_risk, AlertLevel(final_risk),
                                  Source(sensor_data), clock, loggable)
    IN IF r.status = "raised" THEN [report |-> r, logs |-> logs]
       ELSE IF lg.raised THEN [report |-> [NoReport EXCEPT !.status = "raised"],
                               logs |-> lg.logs]
       ELSE [report |-> r, logs |-> lg.logs]

\* ----------------------------------------------- one dashboard run (main)
\* fetch_and_store_data as one call: the cache window if it can be read and
\* holds a row, else the API payload (api_ok: the request returned 200)
fetch_and_store_data(rows, clock, entries, api_ok, cache_readable) ==
    IF cache_readable /\ CacheRows(rows, clock) # {}
    THEN [rows |-> rows, result |-> CachedResult(rows, clock)]
    ELSE IF ~api_ok THEN [rows |-> rows, result |-> EmptyResult]
    ELSE LET acc == ProcessEntries(entries,
                       [rows |-> rows, executed |-> FALSE, result |-> EmptyResult], clock)
         IN [rows |-> acc.rows, result |-> acc.result]

\* main(): fetch, zombie check, risk analysis, rate of change, predictions
\* (the run's predictor is a new object, its model cache empty) and QA
main(rows, logs, clock, entries, api_ok, cache_readable, scraper_result, rain_data, lookup_ok, loggable) ==
    LET fetched == fetch_and_store_data(rows, clock, entries, api_ok, cache_readable)
        sensor_data ==
            IF scraper_result.success /\ scraper_result.outage_stations # <<>>
            THEN check_zombie_data(fetched.result, scraper_result)
            ELSE fetched.result
        analysed == analyze_and_log(sensor_data, rain_data, fetched.rows, logs, clock,
                                    TRUE, loggable)
        roc == calculate_rate_of_change(fetched.rows, clock)
        trained == TrainFromStore(fetched.rows, clock)
        predicted == PredictFrom(trained.model, trained.lag, fetched.rows, clock, TRUE,
                                 lookup_ok)
        qa_result == compute_qa_flags(sensor_data, roc,
                        IF sensor_data.timestamp = None THEN LuNone
                        ELSE LuAware(sensor_data.timestamp), clock)
    IN [rows |-> fetched.rows, logs |-> analysed.logs, sensor_data |-> sensor_data,
        risk_report |-> analysed.report, roc |-> roc, preds |-> predicted.value,
        qa_result |-> qa_result]

\* the four outputs of a run that the dashboard shows
Outputs(run) ==
    [risk_report |-> run.risk_report, roc |-> run.roc, preds |-> run.preds,
     qa_result |-> run.qa_result]

\* --------------------------------------------------------------- actions
NoTrain ==
    [pc |-> "idle", caller |-> NoName, now |-> None, status |-> "none",
     model |-> NoModel, lag |-> 0, queried |-> FALSE]

NoPreds == [status |-> "none", value |-> <<>>]

NoCycle ==
    [before |-> <<>>, entries |-> <<>>, api_ok |-> FALSE, cache_readable |-> FALSE,
     scraper_result |-> [success |-> FALSE, outage_stations |-> <<>>],
     rain_data |-> [rain_sum_3d |-> 0, raw_daily |-> <<>>, error |-> TRUE],
     lookup_ok |-> FALSE, sensor_data |-> EmptyResult,
     out |-> [risk_report |-> NoReport, roc |-> EmptyDict, preds |-> <<>>,
              qa_result |-> NoQa]]

Init ==
    /\ now = 0
    /\ water_levels = <<>>
    /\ pc = [p \in Procs |-> "idle"]
    /\ result = [p \in Procs |-> EmptyResult]
    /\ cv = [val |-> RawNone, station_id |-> NoName, out |-> None]
    /\ latest = [status |-> "none", hours |-> 0, rows |-> <<>>]
    /\ rates = [status |-> "none", value |-> EmptyDict]
    /\ report = [p \in Procs |-> NoReport]
    /\ done = Done("init", 0)
    /\ risk_logs = <<>>
    /\ cached_model = [model |-> NoModel, lag |-> 0, time |-> None]
    /\ train = [p \in Procs |-> NoTrain]
    /\ preds = [p \in Procs |-> NoPreds]
    /\ qa = [sensor_data |-> EmptyResult, rate_of_change |-> EmptyDict,
             last_update |-> LuNone, out |-> NoQa]
    /\ cycle = NoCycle

\* time passes
Tick(d) ==
    /\ now + d <= MaxNow
    /\ now' = now + d
    /\ done' = Done("tick", 0)
    /\ UNCHANGED <<report, water_levels, pc, result, cv, latest, rates>>
    /\ UNCHANGED <<risk_logs, modelVars, callVars>>

\* fetch_and_store_data up to the HTTP request: serve the cache window, or
\* go on to the API (also when the SELECT raised: readable = FALSE)
FetchCheck(p, readable) ==
    /\ pc[p] = "idle"
    /\ IF readable /\ CacheRows(water_levels, now) # {}
       THEN /\ result' = [result EXCEPT ![p] = CachedResult(water_levels, now)]
            /\ pc' = pc
       ELSE /\ pc' = [pc EXCEPT ![p] = "api"]
            /\ result' = result
    /\ done' = Done("fetch_check", p)
    /\ UNCHANGED <<report, now, water_levels, cv, latest, rates>>
    /\ UNCHANGED <<risk_logs, modelVars, callVars>>

\* the HTTP request failed, timed out or returned a non-200 status
FetchApiFail(p) ==
    /\ pc[p] = "api"
    /\ pc' = [pc EXCEPT ![p] = "idle"]
    /\ result' = [result EXCEPT ![p] = EmptyResult]
    /\ done' = Done("fetch_api", p)
    /\ UNCHANGED <<report, now, water_levels, cv, latest, rates>>
    /\ UNCHANGED <<risk_logs, modelVars, callVars>>

\* the payload arrived: one write transaction over its entries.  With
\* writable = FALSE the first INSERT raises and the transaction rolls back.
FetchApi(p, entries, writable) ==
    /\ pc[p] = "api"
    /\ Len(water_levels) < MaxRows
    /\ LET acc == ProcessEntries(entries,
                     [rows |-> water_levels, executed |-> FALSE, result |-> EmptyResult], now)
       IN IF writable \/ ~acc.executed
          THEN /\ water_levels' = acc.rows
               /\ result' = [result EXCEPT ![p] = acc.result]
          ELSE /\ water_levels' = water_levels
               /\ result' = [result EXCEPT ![p] = EmptyResult]
    /\ pc' = [pc EXCEPT ![p] = "idle"]
    /\ done' = Done("fetch_api", p)
    /\ UNCHANGED <<report, now, cv, latest, rates>>
    /\ UNCHANGED <<risk_logs, modelVars, callVars>>

\* get_latest_data(hours); an unreadable store raises to the caller
GetLatestData(hours, readable) ==
    /\ latest' = IF readable
                 THEN [status |-> "ok", hours |-> hours,
                       rows |-> get_latest_data(water_levels, hours, now)]
                 ELSE [status |-> "raised", hours |-> hours, rows |-> <<>>]
    /\ done' = Done("get_latest_data", 0)
    /\ UNCHANGED <<report, now, water_levels, pc, result, cv, rates>>
    /\ UNCHANGED <<risk_logs, modelVars, callVars>>

\* calculate_rate_of_change(); the read inside it is not guarded
CalculateRateOfChange(readable) ==
    /\ rates' = IF readable
                THEN [status |-> "ok",
                      value |-> calculate_rate_of_change(water_levels, now)]
                ELSE [status |-> "raised", value |-> EmptyDict]
    /\ done' = Done("calculate_rate_of_change", 0)
    /\ UNCHANGED <<report, now, water_levels, pc, result, cv, latest>>
    /\ UNCHANGED <<risk_logs, modelVars, callVars>>

\* clean_value called on its own (ui/pipeline.py passes no station)
CleanValue(val, station_id) ==
    /\ cv' = [val |-> val, station_id |-> station_id,
              out |-> clean_value(val, station_id)]
    /\ done' = Done("clean_value", 0)
    /\ UNCHANGED <<report, now, water_levels, pc, result, latest, rates>>
    /\ UNCHANGED <<risk_logs, modelVars, callVars>>

\* sensor_data, zombie_report = check_zombie_data(sensor_data, local_intel):
\* main applies it to the snapshot the fetch just returned
CheckZombie(p, scraper_result) ==
    /\ pc[p] = "idle"
    /\ done.op \in {"fetch_check", "fetch_api"} /\ done.p = p
    /\ LET call == check_zombie_call(result[p], scraper_result)
       IN /\ result' = [result EXCEPT ![p] = call.data]
          /\ done' = [op |-> "check_zombie_data", p |-> p, call |-> call]
    /\ UNCHANGED <<now, water_levels, pc, cv, latest, rates, report>>
    /\ UNCHANGED <<risk_logs, modelVars, callVars>>

\* analyze_flood_risk(sensor_data, rain_data) on the session's snapshot;
\* loggable: whether the INSERT into risk_logs goes through
Analyze(p, rain_data, readable, loggable) ==
    /\ pc[p] = "idle"
    /\ loggable => Len(risk_logs) < MaxLogs
    /\ LET analysed == analyze_and_log(result[p], rain_data, water_levels, risk_logs,
                                       now, readable, loggable)
       IN /\ report' = [report EXCEPT ![p] = analysed.report]
          /\ risk_logs' = analysed.logs
    /\ done' = [op |-> "analyze_flood_risk", p |-> p,
                 call |-> [rain_data |-> rain_data, readable |-> readable,
                           loggable |-> loggable]]
    /\ UNCHANGED <<now, water_levels, pc, result, cv, latest, rates>>
    /\ UNCHANGED <<modelVars, callVars>>

\* train_prediction_model up to its store query, called on its own or from
\* predict_next_hours: a fresh cached model is returned at once (and the
\* prediction goes on from it), otherwise the call goes on to train
TrainCheck(p, caller, readable, lookup_ok) ==
    /\ train[p].pc = "idle"
    /\ IF CacheFresh(cached_model, get_bangkok_time(now))
       THEN /\ train' = [train EXCEPT ![p] =
                           [pc |-> "idle", caller |-> caller,
                            now |-> get_bangkok_time(now), status |-> "ok",
                            model |-> cached_model.model, lag |-> cached_model.lag,
                            queried |-> FALSE]]
            /\ preds' = IF caller = "predict_next_hours"
                        THEN [preds EXCEPT ![p] =
                                 PredictFrom(cached_model.model, cached_model.lag,
                                             water_levels, now, readable, lookup_ok)]
                        ELSE preds
            /\ done' = Done(caller, p)
       ELSE /\ train' = [train EXCEPT ![p] =
                           [pc |-> "fit", caller |-> caller,
                            now |-> get_bangkok_time(now), status |-> "running",
                            model |-> NoModel, lag |-> 0, queried |-> FALSE]]
            /\ preds' = preds
            /\ done' = Done("train_check", p)
    /\ UNCHANGED <<now, water_levels, pc, result, cv, latest, rates, report>>
    /\ UNCHANGED <<risk_logs, cached_model, callVars>>

\* the rest of train_prediction_model: query, lag search, fit, cache write;
\* an unreadable store raises through train_prediction_model and its caller
TrainFit(p, readable, lookup_ok) ==
    /\ train[p].pc = "fit"
    /\ LET trained == TrainFromStore(water_levels, now)
           returned == IF readable THEN trained ELSE [model |-> NoModel, lag |-> 0]
       IN /\ train' = [train EXCEPT ![p] =
                         [@ EXCEPT !.pc = "idle",
                                   !.status = IF readable THEN "ok" ELSE "raised",
                                   !.model = returned.model, !.lag = returned.lag,
                                   !.queried = TRUE]]
          /\ cached_model' = IF readable /\ trained.model # NoModel
                             THEN [model |-> trained.model, lag |-> trained.lag,
                                   time |-> train[p].now]
                             ELSE cached_model
          /\ preds' = IF train[p].caller # "predict_next_hours" THEN preds
                      ELSE IF ~readable
                      THEN [preds EXCEPT ![p] = [status |-> "raised", value |-> <<>>]]
                      ELSE [preds EXCEPT ![p] =
                               PredictFrom(trained.model, trained.lag, water_levels,
                                           now, readable, lookup_ok)]
    /\ done' = Done(train[p].caller, p)
    /\ UNCHANGED <<now, water_levels, pc, result, cv, latest, rates, report>>
    /\ UNCHANGED <<risk_logs, callVars>>

\* compute_qa_flags(sensor_data, rate_of_change, last_update)
ComputeQa(sensor_data, rate_of_change, last_update) ==
    /\ qa' = [sensor_data |-> sensor_data, rate_of_change |-> rate_of_change,
              last_update |-> last_update,
              out |-> compute_qa_flags(sensor_data, rate_of_change, last_update, now)]
    /\ done' = Done("compute_qa_flags", 0)
    /\ UNCHANGED <<now, water_levels, pc, result, cv, latest, rates, report>>
    /\ UNCHANGED <<risk_logs, modelVars, cycle>>

\* one run of the dashboard script, store readable and writable throughout
Cycle(entries, api_ok, cache_readable, scraper_result, rain_data, lookup_ok, loggable) ==
    /\ \A p \in Procs : pc[p] = "idle"
    /\ Len(water_levels) < MaxRows
    /\ loggable => Len(risk_logs) < MaxLogs
    /\ \E ran \in {main(water_levels, risk_logs, now, entries, api_ok, cache_readable,
                        scraper_result, rain_data, lookup_ok, loggable)} :
          /\ water_levels' = ran.rows
          /\ risk_logs' = ran.logs
          /\ cycle' = [before |-> water_levels, entries |-> entries, api_ok |-> api_ok,
                       cache_readable |-> cache_readable,
                       scraper_result |-> scraper_result, rain_data |-> rain_data,
                       lookup_ok |-> lookup_ok, sensor_data |-> ran.sensor_data,
                       out |-> Outputs(ran)]
    /\ done' = Done("main", 0)
    /\ UNCHANGED <<now, pc, result, cv, latest, rates, report>>
    /\ UNCHANGED <<modelVars, qa>>

\* ------------------------------------------------------------ the inputs
\* clock step: two hours
TickSteps == {120}

\* a payload entry that names its station, its reading and its reading time
E1(id, raw, t) == Entry(id, raw, RawNone, RawNone, t, TsNone)

\* the reading time `age` minutes ago, as the API spells it (Bangkok time)
Ago(clock, age) == TsOk(Strftime(clock - age))

\* ---- store: colliding (timestamp, station) keys, across and within payloads
StorePayloads(clock) ==
    { <<E1(2585, RawNum(850), Ago(clock, 0))>>,
      <<E1(2585, RawNum(950), TsNone), E1(2590, RawNum(800), Ago(clock, 0))>>,
      <<E1(2590, RawText(820), TsBad), E1(2590, RawNum(800), Ago(clock, 120))>>,
      <<E1(2585, RawNum(850), Ago(clock, 120)), E1(2585, RawNum(870), Ago(clock, 120))>>,
      <<E1(0, RawNum(850), TsNone), E1(2585, RawNum(-99900), TsNone)>> }

NextStore ==
    \/ \E d \in TickSteps : Tick(d)
    \/ \E p \in Procs, readable \in BOOLEAN : FetchCheck(p, readable)
    \/ \E p \in Procs : FetchApiFail(p)
    \/ \E p \in Procs, writable \in BOOLEAN :
          \E entries \in StorePayloads(now) : FetchApi(p, entries, writable)

SpecStore == Init /\ [][NextStore]_vars

\* ---- sanitizer: the -999 sentinel, values at and around every threshold,
\* ordinary levels, as numbers and as text, and what float() rejects
CleanNumbers == {-99900, -500, -499, -200, -199, -180, -179, -150, -149, 0, 850}

CleanRaws ==
    {RawNum(x) : x \in CleanNumbers} \cup {RawText(x) : x \in CleanNumbers}
    \cup {RawNone, RawEmpty, RawBad}

CleanPayloads(clock) ==
    { <<E1(2585, RawNum(-200), TsNone), E1(2590, RawNum(-149), TsNone)>>,
      <<E1(2589, RawText(-180), TsNone), E1(2585, RawText(-199), Ago(clock, 0))>>,
      <<Entry(2590, RawNum(0), RawNone, RawNum(-150), TsNone, TsNone),
        E1(2589, RawNum(-179), TsBad)>>,
      <<E1(2585, RawNum(-99900), TsNone), E1(2590, RawBad, TsNone)>>,
      <<Entry(2585, RawEmpty, RawText(120), RawNone, TsNone, Ago(clock, 120))>> }

NextClean ==
    \/ \E val \in CleanRaws, st \in Stations \cup {NoName} : CleanValue(val, st)
    \/ \E readable \in BOOLEAN : FetchCheck(1, readable)
    \/ FetchApiFail(1)
    \/ \E writable \in BOOLEAN :
          \E entries \in CleanPayloads(now) : FetchApi(1, entries, writable)

SpecClean == Init /\ [][NextClean]_vars

\* ---- queries: one station read every hour or two, a second station beside it
WindowHours == {2, 24}

QueryPayloads(clock) ==
    { <<E1(2585, RawNum(850), TsNone)>>,
      <<E1(2585, RawNum(950), Ago(clock, 0))>>,
      <<E1(2585, RawNum(900), Ago(clock, 60)), E1(2590, RawNum(800), TsNone)>> }

NextQuery ==
    \/ \E d \in TickSteps : Tick(d)
    \/ \E readable \in BOOLEAN : FetchCheck(1, readable)
    \/ FetchApiFail(1)
    \/ \E writable \in BOOLEAN :
          \E entries \in QueryPayloads(now) : FetchApi(1, entries, writable)
    \/ \E hours \in WindowHours, readable \in BOOLEAN : GetLatestData(hours, readable)
    \/ \E readable \in BOOLEAN : CalculateRateOfChange(readable)

SpecQuery == Init /\ [][NextQuery]_vars

\* ---- risk analysis: forecasts around every break point, the error
\* fallback, and snapshots with and without the primary and upstream gauges
\* what fetch_rain_forecast returns for a daily precipitation series
Forecast(daily) == [rain_sum_3d |-> SumSeq(daily), raw_daily |-> daily, error |-> FALSE]
ErrorForecast == [rain_sum_3d |-> 0, raw_daily |-> <<>>, error |-> TRUE]

RiskForecasts ==
    {ErrorForecast} \cup
    {Forecast(daily) : daily \in
        { <<0, 0, 0>>, <<250, 250, 260>>, <<500, 450, 300>>, <<600, 650, 500>>,
          <<600, 651, 500>>, <<600, 675, 500>>, <<600, 676, 500>>,
          <<1000, 900, 600>>, <<3000, 3000, 2500>> }}

RiskPayloads(clock) ==
    { <<E1(2585, RawNum(1450), TsNone), E1(2590, RawNum(920), TsNone)>>,
      <<E1(2590, RawNum(850), Ago(clock, 60)), E1(2590, RawNum(920), Ago(clock, 0))>>,
      <<E1(2590, RawNum(950), Ago(clock, 60)), E1(2590, RawNum(900), Ago(clock, 0))>>,
      <<E1(2590, RawNum(1), TsNone), E1(2585, RawNum(2500), TsNone)>>,
      <<E1(2590, RawNum(-100), TsNone), E1(2589, RawNum(700), TsNone)>>,
      <<E1(2585, RawNum(-199), TsNone)>> }

\* what scrape_hatyai_climate reports: failure, or the stations in outage
ScraperResults ==
    { [success |-> FALSE, outage_stations |-> <<>>],
      [success |-> TRUE, outage_stations |-> <<"Kallayanamit", "HatYai">>],
      [success |-> TRUE, outage_stations |-> <<"Sadao">>] }

NextRisk ==
    \/ \E readable \in BOOLEAN : FetchCheck(1, readable)
    \/ FetchApiFail(1)
    \/ \E writable \in BOOLEAN :
          \E entries \in RiskPayloads(now) : FetchApi(1, entries, writable)
    \/ \E scraper_result \in ScraperResults : CheckZombie(1, scraper_result)
    \/ \E rain_data \in RiskForecasts, readable \in BOOLEAN :
          Analyze(1, rain_data, readable, FALSE)

SpecRisk == Init /\ [][NextRisk]_vars

\* ---- two sessions analysing side by side, forecasts at the tier boundaries
PairForecasts ==
    {Forecast(daily) : daily \in
        { <<600, 650, 500>>, <<600, 651, 500>>, <<600, 675, 500>>, <<600, 676, 500>> }}

PairPayloads(clock) == { <<E1(2585, RawNum(1450), TsNone)>> }

NextPair ==
    \/ \E p \in Procs, readable \in BOOLEAN : FetchCheck(p, readable)
    \/ \E p \in Procs : FetchApiFail(p)
    \/ \E p \in Procs, writable \in BOOLEAN :
          \E entries \in PairPayloads(now) : FetchApi(p, entries, writable)
    \/ \E p \in Procs, rain_data \in PairForecasts, readable \in BOOLEAN :
          Analyze(p, rain_data, readable, FALSE)

SpecPair == Init /\ [][NextPair]_vars

\* ---- the regression model: a six-hour history of both gauges, histories
\* that cannot be trained on, and a clock that steps across the 30 minutes
TrainTicks == {20, 30}

Callers == {"train_prediction_model", "predict_next_hours"}

\* hourly readings of one station over the last hours, oldest first
RECURSIVE HourlyEntries(_, _, _)
HourlyEntries(id, levels, clock) ==
    IF levels = <<>> THEN <<>>
    ELSE <<E1(id, RawNum(Head(levels)), Ago(clock, 60 * (Len(levels) - 1)))>>
         \o HourlyEntries(id, Tail(levels), clock)

TrainPayloads(clock) ==
    { HourlyEntries(2590, <<800, 806, 812, 806, 800, 800, 800>>, clock)
        \o HourlyEntries(2585, <<850, 850, 856, 862, 856, 850, 850>>, clock),
      <<E1(2585, RawNum(850), Ago(clock, 360)), E1(2590, RawNum(800), Ago(clock, 360)),
        E1(2585, RawNum(856), Ago(clock, 120)), E1(2590, RawNum(812), Ago(clock, 120)),
        E1(2585, RawNum(868), Ago(clock, 0)), E1(2590, RawNum(815), Ago(clock, 0))>>,
      <<E1(2585, RawNum(850), Ago(clock, 60)), E1(2585, RawNum(856), Ago(clock, 0))>>,
      <<E1(2585, RawNum(850), Ago(clock, 0)), E1(2590, RawNum(800), Ago(clock, 60))>> }

NextTrain ==
    \/ \E d \in TrainTicks : now + d <= TrainHorizon /\ Tick(d)
    \/ FetchCheck(1, TRUE)
    \/ FetchApiFail(1)
    \/ \E writable \in BOOLEAN :
          \E entries \in TrainPayloads(now) : FetchApi(1, entries, writable)
    \/ \E caller \in Callers, readable, lookup_ok \in BOOLEAN :
          TrainCheck(1, caller, readable, lookup_ok)
    \/ \E readable, lookup_ok \in BOOLEAN : TrainFit(1, readable, lookup_ok)

SpecTrain == Init /\ [][NextTrain]_vars

\* ---- QA: snapshots with offline, plausible and out-of-range levels, rates
\* on both sides of the jump and logic thresholds, and every kind of
\* last_update
QaAllData ==
    { [s \in Stations |-> CASE s = "HatYai" -> h [] s = "Sadao" -> u
                            [] s = "Kallayanamit" -> k] :
        h \in {None, 850}, u \in {None, 800}, k \in {None, 800, 1600} }
      \cup { [s \in {"HatYai"} |-> 850] }

QaBankInfo ==
    { EmptyDict,
      [s \in Stations |-> [situation_level |-> 1, ground_level |-> 300]] }

QaSnapshots ==
    { [level |-> DictGet(a, "HatYai"), station_code |-> None,
       station_name |-> "HatYai", timestamp |-> None,
       is_fallback |-> DictGet(a, "HatYai") = None,
       all_data |-> a, bank_info |-> b] : a \in QaAllData, b \in QaBankInfo }

QaRates ==
    { [s \in Stations |-> CASE s = "HatYai" -> ZeroRate [] s = "Sadao" -> u
                            [] s = "Kallayanamit" -> k] :
        u \in {ZeroRate, Rate(-250, 1)},
        k \in {ZeroRate, Rate(250, 1), Rate(-250, 1)} }
      \cup { EmptyDict }

QaLastUpdates == {LuNone, LuAware(0), LuNaive(BangkokOffset + 120)}

NextQA ==
    \/ \E d \in TickSteps : Tick(d)
    \/ \E sensor_data \in QaSnapshots, rate_of_change \in QaRates,
          last_update \in QaLastUpdates :
          ComputeQa(sensor_data, rate_of_change, last_update)

SpecQA == Init /\ [][NextQA]_vars

\* ---- the assessment log: analyses with the log table writable and not,
\* over snapshots with and without the upstream reading
LogForecasts == {ErrorForecast, Forecast(<<600, 676, 500>>)}

LogPayloads(clock) ==
    { <<E1(2585, RawNum(1450), TsNone), E1(2590, RawNum(920), TsNone)>>,
      <<E1(2585, RawNum(-199), TsNone)>> }

NextLog ==
    \/ FetchCheck(1, TRUE)
    \/ FetchApiFail(1)
    \/ \E writable \in BOOLEAN :
          \E entries \in LogPayloads(now) : FetchApi(1, entries, writable)
    \/ \E rain_data \in LogForecasts, readable, loggable \in BOOLEAN :
          Analyze(1, rain_data, readable, loggable)

SpecLog == Init /\ [][NextLog]_vars

\* ---- the cache window: clock steps shorter than cache_minutes, payloads
\* whose stations were read at different minutes
CacheTicks == {10}

CachePayloads(clock) ==
    { <<E1(2585, RawNum(850), Ago(clock, 5)), E1(2590, RawNum(800), Ago(clock, 0))>>,
      <<E1(2585, RawNum(856), Ago(clock, 0))>>,
      <<E1(2590, RawNum(806), Ago(clock, 0)), E1(2589, RawNum(700), Ago(clock, 10))>> }

NextCache ==
    \/ \E d \in CacheTicks : now + d <= CacheHorizon /\ Tick(d)
    \/ \E readable \in BOOLEAN : FetchCheck(1, readable)
    \/ FetchApiFail(1)
    \/ \E writable \in BOOLEAN :
          \E entries \in CachePayloads(now) : FetchApi(1, entries, writable)
    \/ \E readable \in BOOLEAN : CalculateRateOfChange(readable)

SpecCache == Init /\ [][NextCache]_vars

\* ---- whole dashboard runs: payloads that list a station's reading of an
\* hour ago next to its current one, with and without outages reported
CycleTicks == {60}

CyclePayloads(clock) ==
    { <<E1(2585, RawNum(850), Ago(clock, 0)), E1(2590, RawNum(800), Ago(clock, 60)),
        E1(2590, RawNum(812), Ago(clock, 0))>>,
      <<E1(2585, RawNum(850), Ago(clock, 0)), E1(2590, RawNum(800), Ago(clock, 0))>>,
      <<E1(2590, RawNum(800), Ago(clock, 0))>> }

CycleForecasts == {Forecast(<<0, 0, 0>>), Forecast(<<600, 676, 500>>)}

NextCycle ==
    \/ \E d \in CycleTicks : now + d <= CycleHorizon /\ Tick(d)
    \/ \E entries \in CyclePayloads(now), api_ok, cache_readable \in BOOLEAN,
          scraper_result \in ScraperResults, rain_data \in CycleForecasts :
          Cycle(entries, api_ok, cache_readable, scraper_result, rain_data,
                TRUE, FALSE)

SpecCycle == Init /\ [][NextCycle]_vars

\* ---- retraining on one predictor: two callers, a history whose levels
\* move, one whose levels never change, and a clock that outlives the cache
RetrainTicks == {30}

RetrainPayloads(clock) ==
    { HourlyEntries(2590, <<800, 806, 812, 806, 800, 800, 800>>, clock)
        \o HourlyEntries(2585, <<850, 850, 856, 862, 856, 850, 850>>, clock),
      HourlyEntries(2590, <<800, 800, 800, 800, 800, 800>>, clock)
        \o HourlyEntries(2585, <<850, 850, 850, 850, 850, 850>>, clock),
      HourlyEntries(2590, <<800, 806, 812, 818, 824, 830, 836>>, clock)
        \o HourlyEntries(2585, <<880, 874, 868, 862, 856, 850, 844>>, clock) }

NextRetrain ==
    \/ \E d \in RetrainTicks : now + d <= TrainHorizon /\ Tick(d)
    \/ FetchCheck(1, TRUE)
    \/ FetchApiFail(1)
    \/ \E entries \in RetrainPayloads(now) : FetchApi(1, entries, TRUE)
    \/ \E p \in Procs : TrainCheck(p, "train_prediction_model", TRUE, TRUE)
    \/ \E p \in Procs : TrainFit(p, TRUE, TRUE)

SpecRetrain == Init /\ [][NextRetrain]_vars

\* ================================================================ claims

\* C6: the store holds at most one row per (timestamp, station) pair, and a
\* step never changes or removes a row already stored: recording an existing
\* pair leaves the store as it was.
UniqueKeys ==
    \A i, j \in 1..Len(water_levels) :
        (water_levels[i].timestamp = water_levels[j].timestamp
         /\ water_levels[i].station_id = water_levels[j].station_id) => i = j

RowsKept ==
    /\ Len(water_levels') >= Len(water_levels)
    /\ \A i \in 1..Len(water_levels) : water_levels'[i] = water_levels[i]

C6_IdempotentRecord == []UniqueKeys /\ [][RowsKept]_vars

\* a fetch has just returned a level for a (timestamp, station) pair whose
\* stored row carries another level: its insert was ignored
C6_Witness ==
    \E p \in Procs, i \in 1..Len(water_levels) :
        /\ done = Done("fetch_api", p)
        /\ result[p].level # None
        /\ water_levels[i].station_id = result[p].station_name
        /\ water_levels[i].timestamp = Strftime(result[p].timestamp)
        /\ water_levels[i].level # result[p].level

\* C7: clean_value returns either None or a number strictly above the
\* station's min_valid_level (None for whatever float() rejects and for a
\* number at or below the threshold), and no row of the store carries a level
\* at or below its station's threshold.
C7_CleanValueAboveThreshold ==
    /\ cv.out # None => cv.out > MinValidLevel(cv.station_id)
    /\ cv.out = None <=>
          \/ cv.val.kind \notin {"num", "text"}
          \/ cv.val.v <= MinValidLevel(cv.station_id)
    /\ cv.out # None => cv.out = cv.val.v
    /\ \A i \in 1..Len(water_levels) :
          /\ water_levels[i].level # None
          /\ water_levels[i].level > MinValidLevel(water_levels[i].station_id)

\* a reading exactly at its station's threshold was rejected, and a fetch has
\* stored a reading one centimetre above a threshold
C7_Witness ==
    /\ cv.val.kind \in {"num", "text"}
    /\ cv.station_id \in Stations
    /\ cv.val.v = MinValidLevel(cv.station_id)
    /\ cv.out = None
    /\ \E i \in 1..Len(water_levels) :
          water_levels[i].level = MinValidLevel(water_levels[i].station_id) + 1

\* the instant a stored row was read at the gauge
ReadingInstant(r) == parse_timestamp(TsOk(r.timestamp), 0)

\* C8: get_latest_data(hours) returns, in ascending timestamp order, exactly
\* the stored rows read no more than `hours` hours before the current time
\* whose level is above the station's threshold.
C8_WindowedQuery ==
    (done.op = "get_latest_data" /\ latest.status = "ok") =>
        /\ \A i, j \in 1..Len(latest.rows) :
              i < j => latest.rows[i].timestamp <= latest.rows[j].timestamp
        /\ \A i \in 1..Len(latest.rows) :
              latest.rows[i].timestamp >= now - latest.hours * 60
        /\ \A i \in 1..Len(water_levels) :
              (ReadingInstant(water_levels[i]) >= now - latest.hours * 60
               /\ PassesThreshold(water_levels[i]))
              => \E j \in 1..Len(latest.rows) :
                    /\ latest.rows[j].timestamp = ReadingInstant(water_levels[i])
                    /\ latest.rows[j].station_id = water_levels[i].station_id
                    /\ latest.rows[j].level = water_levels[i].level

\* the rows of one station
StationRows(st) == SelectSeq(water_levels, LAMBDA r : r.station_id = st)

\* C9: a station whose history is exactly two valid readings two hours apart,
\* the later one 1.0 m higher, gets 0.5 m/h; a station with exactly one
\* reading in the last two hours gets 0.
C9_RateExamples ==
    (done.op = "calculate_rate_of_change" /\ rates.status = "ok") =>
        \A st \in Stations :
            LET h == StationRows(st)
                inWindow == SelectSeq(h, LAMBDA r : ReadingInstant(r) >= now - 120)
            IN /\ (/\ Len(h) = 2
                   /\ ReadingInstant(h[2]) <= now
                   /\ Abs(h[2].timestamp - h[1].timestamp) = 120
                   /\ \E i, j \in 1..2 : /\ h[j].timestamp > h[i].timestamp
                                         /\ h[j].level - h[i].level = 100)
                  => /\ st \in DOMAIN rates.value
                     /\ RateEq(rates.value[st], 50, 1)
               /\ Len(inWindow) = 1
                  => /\ st \in DOMAIN rates.value
                     /\ RateEq(rates.value[st], 0, 1)

\* C1: analyze_flood_risk returns a report and never raises, for every
\* snapshot and forecast, whether or not the store can be read.
C1_AlwaysReturnsReport ==
    \A p \in Procs : report[p].status # "raised"

\* C2: a report for a snapshot without a primary level has confidence 65,
\* source "Virtual (Rain Only)" and the rain risk alone as its risk; a report
\* for a snapshot with a level has confidence 90 and a Hybrid source; no
\* other confidence is reported.
C2_FailoverContract ==
    \A p \in Procs : report[p].status = "ok" =>
        /\ (done.op = "analyze_flood_risk" /\ done.p = p)
              => report[p].current_level = result[p].level
        /\ report[p].confidence_score \in {65, 90}
        /\ report[p].current_level = None =>
              /\ report[p].confidence_score = 65
              /\ report[p].data_source.mode = "Virtual (Rain Only)"
              /\ ~report[p].is_sensor_active
              /\ report[p].primary_risk =
                    RoundTo(Min((report[p].rain_sum * 100000) \div 2500, 100000), 100)
        /\ report[p].current_level # None =>
              /\ report[p].confidence_score = 90
              /\ report[p].data_source.mode = "Hybrid"

\* a rain-only report with rain in the forecast
C2_Witness ==
    /\ report[1].status = "ok"
    /\ report[1].current_level = None
    /\ report[1].rain_sum > 0
    /\ report[1].confidence_score = 65

\* C3: the primary_risk of every report lies within [0, 100].
C3_RiskWithinBounds ==
    \A p \in Procs : report[p].status = "ok" =>
        report[p].primary_risk >= 0 /\ report[p].primary_risk <= 100000

\* a rain-only report for 850 mm, where the rain risk saturates
C3_Witness ==
    /\ report[1].status = "ok"
    /\ report[1].current_level = None
    /\ report[1].rain_sum = 8500
    /\ report[1].primary_risk = 100000

\* C4: the tier follows the documented bands: 0-30 % NORMAL, 31-70 %
\* WARNING, 71-100 % CRITICAL.
C4_DocumentedBands ==
    \A p \in Procs : report[p].status = "ok" =>
        /\ report[p].primary_risk <= 30000 => report[p].alert_level = "NORMAL"
        /\ (report[p].primary_risk >= 31000 /\ report[p].primary_risk <= 70000)
              => report[p].alert_level = "WARNING"
        /\ report[p].primary_risk >= 71000 => report[p].alert_level = "CRITICAL"

TierRank(alert_level) ==
    CASE alert_level = "NORMAL" -> 0
      [] alert_level = "WARNING" -> 1
      [] alert_level = "CRITICAL" -> 2

\* C5: over any two reports, equal primary_risk carries the same alert_level
\* and a larger primary_risk never carries a lower tier.
C5_TierFunctionOfRisk ==
    \A p, q \in Procs :
        (report[p].status = "ok" /\ report[q].status = "ok") =>
            /\ report[p].primary_risk = report[q].primary_risk
                  => report[p].alert_level = report[q].alert_level
            /\ report[p].primary_risk < report[q].primary_risk
                  => TierRank(report[p].alert_level) <= TierRank(report[q].alert_level)

\* C10 as stated: velocity_ms lies within [0.1, max_velocity] for every snapshot.
C10_VelocityAlwaysInRange ==
    \A p \in Procs : report[p].status = "ok" =>
        /\ report[p].eta.velocity_ms >= min_velocity
        /\ report[p].eta.velocity_ms <= max_velocity

\* C10 (amended): for a snapshot with an upstream (Sadao) level the
\* velocity_ms of the estimate lies within [0.1, max_velocity]; without one
\* the estimate is the no-data result, with velocity_ms 0.
C10_VelocityInRangeWithUpstream ==
    \A p \in Procs : report[p].status = "ok" =>
        /\ (done.op = "analyze_flood_risk" /\ done.p = p)
              => report[p].eta.sadao_level = DictGet(result[p].all_data, "Sadao")
        /\ report[p].eta.sadao_level # None =>
              /\ report[p].eta.velocity_ms >= min_velocity
              /\ report[p].eta.velocity_ms <= max_velocity
        /\ report[p].eta.sadao_level = None =>
              /\ report[p].eta.velocity_ms = 0
              /\ report[p].eta.confidence = "Low (No upstream data)"

\* an estimate for an upstream level of 1 cm, where the lower clamp acts
C10_Witness ==
    /\ report[1].status = "ok"
    /\ report[1].eta.sadao_level = 1
    /\ report[1].eta.velocity_ms = min_velocity

\* the history the training would read cannot be trained on: it is empty,
\* lacks one of the two gauges, or leaves fewer than 5 aligned hourly rows
\* after the shift by the chosen lag
Untrainable(rows, clock) ==
    LET df == get_latest_data(rows, 168, clock)
        df_hourly == Hourly(df, PivotIndex(df), Columns(df))
    IN \/ df = <<>>
       \/ "HatYai" \notin Columns(df)
       \/ "Sadao" \notin Columns(df)
       \/ df_hourly.len - BestLag(df_hourly.v["HatYai"], df_hourly.v["Sadao"]) < 5

\* a step in which caller p's training (the part after the cache test) ran
\* on a readable store
Trains(p) ==
    /\ train[p].pc = "fit"
    /\ train'[p].pc = "idle"
    /\ train'[p].status = "ok"

\* C11: when the history cannot be trained on, train_prediction_model
\* returns (no model, 0) without raising, predict_next_hours returns an
\* empty sequence without raising, and the model cache is left as it was.
C11_UntrainableStep ==
    \A p \in Procs :
        (Trains(p) /\ Untrainable(water_levels, now)) =>
            /\ train'[p].model = NoModel
            /\ train'[p].lag = 0
            /\ cached_model' = cached_model
            /\ train[p].caller = "predict_next_hours"
                  => preds'[p] = [status |-> "ok", value |-> <<>>]

C11_UntrainableGivesNoModel == [][C11_UntrainableStep]_vars

\* predict_next_hours has just returned an empty sequence after a training
\* that found both gauges in the history but too few aligned rows
C11_Witness ==
    /\ done = Done("predict_next_hours", 1)
    /\ train[1].queried
    /\ train[1].status = "ok"
    /\ train[1].model = NoModel
    /\ {"HatYai", "Sadao"} \subseteq Columns(get_latest_data(water_levels, 168, now))
    /\ preds[1] = [status |-> "ok", value |-> <<>>]
    /\ cached_model.model = NoModel

\* C20: a call made less than 30 minutes after the cached model's training
\* time returns the cached (model, lag) without querying the store; any
\* other call queries the store and returns what that training yields (the
\* new model, or no model), never the expired one; the cache changes only
\* by a successful training, to its model, lag and starting time.
C20_CacheStep ==
    \A p \in Procs :
        /\ (train[p].pc = "idle" /\ train'[p] # train[p]) =>
              IF cached_model.model # NoModel /\ now - cached_model.time < 30
              THEN /\ train'[p].pc = "idle"
                   /\ train'[p].status = "ok"
                   /\ ~train'[p].queried
                   /\ train'[p].model = cached_model.model
                   /\ train'[p].lag = cached_model.lag
                   /\ cached_model' = cached_model
              ELSE /\ train'[p].pc = "fit"
                   /\ cached_model' = cached_model
        /\ Trains(p) =>
              /\ train'[p].queried
              /\ [model |-> train'[p].model, lag |-> train'[p].lag]
                    = TrainFromStore(water_levels, now)
              /\ IF train'[p].model # NoModel
                 THEN cached_model' = [model |-> train'[p].model, lag |-> train'[p].lag,
                                       time |-> train[p].now]
                 ELSE cached_model' = cached_model
        /\ (train[p].pc = "fit" /\ train'[p].status = "raised") =>
              /\ train'[p].model = NoModel
              /\ cached_model' = cached_model

C20_ModelCacheTtl == [][C20_CacheStep]_vars

\* a call 20 minutes after the training got the cached model back without a
\* store query
C20_Witness ==
    /\ done.op \in Callers
    /\ train[1].status = "ok"
    /\ ~train[1].queried
    /\ train[1].model # NoModel
    /\ train[1].model = cached_model.model
    /\ now - cached_model.time = 20

QaDone == done.op = "compute_qa_flags"

QaScores == [i \in 1..Len(StationOrder) |-> qa.out.stations[StationOrder[i]].confidence]

\* C12: a station whose current level is empty (missing from all_data, or
\* present with no value) gets confidence 0 and the flag list <<"offline">>,
\* whatever the rate of change, last_update and bank_info of the call are.
C12_OfflineOnly ==
    QaDone =>
        \A s \in Stations :
            DictGet(qa.sensor_data.all_data, s) = None
                => /\ qa.out.stations[s].confidence = 0
                   /\ qa.out.stations[s].flags = <<"offline">>

\* an offline station in a call whose last_update is stale and whose rate
\* for that station is beyond the jump limit, next to a station that is
\* flagged for both
C12_Witness ==
    /\ QaDone
    /\ DictGet(qa.sensor_data.all_data, "Sadao") = None
    /\ qa.out.stations["Sadao"].flags = <<"offline">>
    /\ qa.rate_of_change # EmptyDict
    /\ qa.rate_of_change["Sadao"] = Rate(-250, 1)
    /\ qa.out.stations["Kallayanamit"].flags = <<"stale", "jump">>

\* C13 (as amended): the aggregate confidence is the mean of the three
\* station confidences rounded to the nearest integer, and the status is "ok"
\* exactly when the mean is at least 80, "degraded" exactly when it is at
\* least 50 and below 80, "critical" otherwise.
C13_RoundedMeanAndStatus ==
    QaDone =>
        LET sum == SumSeq(QaScores)
            n == Len(StationOrder)
            c == qa.out.overall_confidence
        IN /\ 2 * Abs(n * c - sum) <= n
           /\ (qa.out.overall_status = "ok") = (sum >= 80 * n)
           /\ (qa.out.overall_status = "degraded") = (sum >= 50 * n /\ sum < 80 * n)
           /\ (qa.out.overall_status = "critical") = (sum < 50 * n)

\* the mean is exactly 80 and the status "ok"
C13_Witness ==
    /\ QaDone
    /\ SumSeq(QaScores) = 240
    /\ qa.out.overall_confidence = 80
    /\ qa.out.overall_status = "ok"

\* C13 as stated: the aggregate confidence is the mean itself
C13_ExactMean ==
    QaDone =>
        /\ Len(StationOrder) * qa.out.overall_confidence = SumSeq(QaScores)
        /\ (qa.out.overall_status = "ok") = (SumSeq(QaScores) >= 80 * Len(StationOrder))
        /\ (qa.out.overall_status = "degraded")
              = (SumSeq(QaScores) >= 50 * Len(StationOrder)
                 /\ SumSeq(QaScores) < 80 * Len(StationOrder))

\* C14: an analysis whose log write fails returns the report the analysis
\* itself computes, which is the report of the same call with the write
\* succeeding, and leaves risk_logs as it was; the failed write raises
\* nothing.
C14_LogStep ==
    \A p \in Procs :
        (done'.op = "analyze_flood_risk" /\ done'.p = p /\ ~done'.call.loggable) =>
            /\ report'[p] = analyze_flood_risk(result[p], done'.call.rain_data,
                                               water_levels, now, done'.call.readable)
            /\ report'[p] = analyze_and_log(result[p], done'.call.rain_data,
                                            water_levels, risk_logs, now,
                                            done'.call.readable, TRUE).report
            /\ risk_logs' = risk_logs

C14_LogFailureSwallowed == [][C14_LogStep]_vars

\* an analysis returned its report though the log table could not be written
C14_Witness ==
    /\ done.op = "analyze_flood_risk"
    /\ ~done.call.loggable
    /\ report[done.p].status = "ok"
    /\ report[done.p].primary_risk # None
    /\ risk_logs = <<>>

\* minutes since the reading of a stored row was taken
ReadingAge(row, clock) == clock - (row.timestamp - BangkokOffset)

\* the rows read less than cache_minutes ago
FreshRows(rows, clock) ==
    {i \in 1..Len(rows) : ReadingAge(rows[i], clock) < cache_minutes}

\* the fetch of session p was answered from the store by the latest step
ServedFromCache(p) == done.op = "fetch_check" /\ done.p = p /\ pc[p] = "idle"

\* C15: a fetch is answered from the store, without a request to the gauge
\* API, only if the store holds a reading less than 15 minutes old; when the
\* newest stored reading is older, the fetch goes on to the API.
C15_CacheOnlyWhenFresh ==
    \A p \in Procs :
        ServedFromCache(p) => FreshRows(water_levels, now) # {}

\* C17: a snapshot served from the cache window holds, for every station
\* with a reading less than 15 minutes old, that station's most recent
\* reading, and its level is HatYai's most recent reading whenever HatYai
\* has one in the window.
C17_CacheLatestPerStation ==
    \A p \in Procs :
        ServedFromCache(p) =>
            \A i \in FreshRows(water_levels, now) :
                (\A j \in FreshRows(water_levels, now) :
                    water_levels[j].station_id = water_levels[i].station_id
                        => water_levels[j].timestamp <= water_levels[i].timestamp)
                => /\ water_levels[i].station_id \in DOMAIN result[p].all_data
                   /\ result[p].all_data[water_levels[i].station_id] = water_levels[i].level
                   /\ water_levels[i].station_id = "HatYai"
                         => result[p].level = water_levels[i].level

C18_ZombieFrame ==
    done.op = "check_zombie_data" =>
        LET c == done.call
            outage == c.scraper_result.outage_stations
            listed == IF c.scraper_result.success
                      THEN {outage[i] : i \in 1..Len(outage)} ELSE {}
        IN /\ \A s \in listed :
                /\ DictGet(c.data.all_data, s) = None
                /\ c.input.station_name = s
                      => c.data.level = None /\ c.data.is_fallback
           /\ DOMAIN c.data.all_data = DOMAIN c.input.all_data
           /\ \A s \in (DOMAIN c.input.all_data) \ listed :
                c.data.all_data[s] = c.input.all_data[s]
           /\ c.input.station_name \notin listed =>
                /\ c.data.level = c.input.level
                /\ c.data.is_fallback = c.input.is_fallback
           /\ c.input_after = c.input
           /\ ~c.scraper_result.success => c.data = c.input
           /\ result[done.p] = c.data

\* an upstream outage: Sadao's value is taken out, the primary reading and
\* the caller's snapshot are left as they were
C18_Witness ==
    /\ done.op = "check_zombie_data"
    /\ done.call.scraper_result = [success |-> TRUE, outage_stations |-> <<"Sadao">>]
    /\ DictGet(done.call.input.all_data, "Sadao") # None
    /\ DictGet(done.call.input.all_data, "HatYai") # None
    /\ done.call.data.all_data["Sadao"] = None
    /\ done.call.data.level = done.call.input.all_data["HatYai"]
    /\ done.call.input_after.all_data["Sadao"] # None

\* the stations a scraper result reports as out of order
Flagged(scraper_result) ==
    IF scraper_result.success
    THEN {scraper_result.outage_stations[i] : i \in 1..Len(scraper_result.outage_stations)}
    ELSE {}

\* the payload with the current (last listed) reading of a flagged station
\* replaced by another value
Revalued(entries, flagged, raw) ==
    LET of == {i \in 1..Len(entries) : StationMapping(entries[i].station) \in flagged}
    IN IF of = {} THEN entries
       ELSE LET last == CHOOSE i \in of : \A j \in of : j <= i
            IN [entries EXCEPT ![last].waterlevel_msl = raw]

\* C19: the value an outage-flagged station reports has no influence on the
\* outputs of the run that discards it: the same run on a payload that
\* differs only in that value yields the same risk report, rate-of-change
\* map, predictions and QA report.
C19_ZombieNonInterference ==
    done.op = "main" =>
        \A raw \in {RawNum(806), RawNum(830)} :
            Outputs(main(cycle.before, <<>>, now,
                         Revalued(cycle.entries, Flagged(cycle.scraper_result), raw),
                         cycle.api_ok, cycle.cache_readable, cycle.scraper_result,
                         cycle.rain_data, cycle.lookup_ok, FALSE))
                = cycle.out

\* the analysis the latest step performed returned a report
Analysed(p) == done.op = "analyze_flood_risk" /\ done.p = p /\ report[p].status = "ok"

\* Sadao's rate of change as the store gives it at this moment
SadaoRoc ==
    LET roc == calculate_rate_of_change(water_levels, now)
    IN IF "Sadao" \in DOMAIN roc THEN roc["Sadao"] ELSE ZeroRate

\* C23: with Sadao above bank-full and rising faster than 0.5 m/h the
\* estimate has confidence "High" and its velocity is the wet-tier hydraulic
\* velocity times 1.3, clamped to max_velocity (reported to two decimals);
\* in every estimate exactly one factor applies: 1.3 for a rate above 0.5,
\* else 1.1 above 0.2, else 0.8 below -0.1, else 1.
C23_MomentumFactor ==
    \A p \in Procs :
        (Analysed(p) /\ report[p].eta.sadao_level # None) =>
            LET level == report[p].eta.sadao_level
                base == IF 2 * level <= 900 THEN base_velocity_dry
                        ELSE IF level <= 900 THEN base_velocity_normal
                        ELSE base_velocity_wet
                hydraulic == calculate_flow_velocity(level, 900, base)
                wet == calculate_flow_velocity(level, 900, base_velocity_wet)
                tenths == IF RateGt(SadaoRoc, 50, 1) THEN 13
                          ELSE IF RateGt(SadaoRoc, 20, 1) THEN 11
                          ELSE IF RateLt(SadaoRoc, -10, 1) THEN 8
                          ELSE 10
            IN /\ report[p].eta.velocity_ms
                    = RoundTo(Max(1000, Min((hydraulic * tenths) \div 10, 25000)), 100)
               /\ (level > 900 /\ RateGt(SadaoRoc, 50, 1)) =>
                    /\ report[p].eta.confidence = "High"
                    /\ report[p].eta.velocity_ms
                          = RoundTo(Min((wet * 13) \div 10, 25000), 100)

\* Sadao at 9.20 m, 0.70 m above its reading of an hour ago
C23_Witness ==
    /\ Analysed(1)
    /\ report[1].eta.sadao_level = 920
    /\ RateGt(SadaoRoc, 50, 1)
    /\ report[1].eta.confidence = "High"
    /\ report[1].eta.velocity_ms > base_velocity_wet

\* C24: the water-level risk is 50 exactly at the configured inflection
\* level of 9.5 m, below 50 for every lower level and above 50 for every
\* higher level.
C24_SigmoidCentre ==
    \A p \in Procs :
        (report[p].status = "ok" /\ report[p].current_level # None) =>
            LET level == report[p].current_level
                risk == sigmoid_risk(level)
            IN /\ (risk = 50000) = (level = 950)
               /\ level < 950 => risk < 50000
               /\ level > 950 => risk > 50000

\* C28: the headline of summary_report names the tier of alert_level:
\* CRITICAL with CRITICAL, WATCH with WARNING, NORMAL with NORMAL.
C28_HeadlineMatchesTier ==
    \A p \in Procs :
        report[p].status = "ok" =>
            /\ (report[p].summary_report.headline = "CRITICAL")
                  = (report[p].alert_level = "CRITICAL")
            /\ (report[p].summary_report.headline = "WATCH")
                  = (report[p].alert_level = "WARNING")
            /\ (report[p].summary_report.headline = "NORMAL")
                  = (report[p].alert_level = "NORMAL")

\* C29: a snapshot a fetch returns with a level carries that level as the
\* all_data value of the station it names.
C29_LevelIsNamedStationValue ==
    \A p \in Procs :
        (done.op \in {"fetch_check", "fetch_api"} /\ done.p = p /\ pc[p] = "idle"
         /\ result[p].level # None) =>
            result[p].level = DictGet(result[p].all_data, result[p].station_name)

\* the deduction that goes with a QA flag
Deduction(flag) ==
    CASE flag = "stale" -> 30
      [] flag = "jump" -> 25
      [] flag = "out_of_range" -> 40
      [] flag = "logic_warn" -> 10
      [] flag = "datum_mismatch" -> 20
      [] OTHER -> 0

\* C26: for every station with a current level the confidence is
\* max(0, 100 - the deductions of the flags raised), within 0..100; the flag
\* list is not empty, names each flag once, and holds "ok" exactly when it
\* holds nothing else.
C26_ConfidenceFromFlags ==
    QaDone =>
        \A s \in Stations :
            DictGet(qa.sensor_data.all_data, s) # None =>
                LET q == qa.out.stations[s]
                    raised == {q.flags[i] : i \in 1..Len(q.flags)}
                IN /\ q.flags # <<>>
                   /\ Cardinality(raised) = Len(q.flags)
                   /\ raised \subseteq {"ok", "stale", "jump", "out_of_range",
                                        "logic_warn", "datum_mismatch"}
                   /\ ("ok" \in raised) = (raised = {"ok"})
                   /\ q.confidence
                        = Max(0, 100 - SumSeq([i \in 1..Len(q.flags) |-> Deduction(q.flags[i])]))
                   /\ q.confidence \in 0..100

\* the four deductions that can meet add up to 105: the confidence is 0
C26_Witness ==
    /\ QaDone
    /\ qa.out.stations["Kallayanamit"].flags
          = <<"stale", "jump", "out_of_range", "logic_warn">>
    /\ qa.out.stations["Kallayanamit"].confidence = 0

\* the call's snapshot with another ground elevation reported for a station
WithGround(sensor_data, station, ground) ==
    [sensor_data EXCEPT !.bank_info[station].ground_level = ground]

C25_RateFlooredElapsed ==
    (done.op = "calculate_rate_of_change" /\ rates.status = "ok") =>
        \A st \in Stations :
            LET w == {i \in 1..Len(water_levels) :
                        /\ water_levels[i].station_id = st
                        /\ ReadingInstant(water_levels[i]) >= now - 90}
            IN IF Cardinality(w) >= 2
               THEN LET first == CHOOSE i \in w : \A j \in w :
                                     water_levels[i].timestamp <= water_levels[j].timestamp
                        last == CHOOSE i \in w : \A j \in w :
                                     water_levels[j].timestamp <= water_levels[i].timestamp
                        elapsed == water_levels[last].timestamp - water_levels[first].timestamp
                    IN /\ st \in DOMAIN rates.value
                       /\ RateEq(rates.value[st],
                                 (water_levels[last].level - water_levels[first].level) * 60,
                                 Max(elapsed, 6))
               ELSE st \in DOMAIN rates.value => RateEq(rates.value[st], 0, 1)

\* C30: processing one API payload in two successive fresh fetches leaves
\* the store as it was after the first: the second fetch, a minute or an
\* hour later, stores no reading of the payload again, whether or not its
\* entries carry a timestamp that parse_timestamp recognises.
C30_RefetchStoresNothing ==
    \A entries \in StorePayloads(now), later \in {1, 60} :
        LET first == ProcessEntries(entries,
                         [rows |-> water_levels, executed |-> FALSE,
                          result |-> EmptyResult], now).rows
            second == ProcessEntries(entries,
                          [rows |-> first, executed |-> FALSE,
                           result |-> EmptyResult], now + later).rows
        IN second = first

\* the hourly frame train_prediction_model builds from the store
TrainFrame ==
    LET df == get_latest_data(water_levels, 168, now)
    IN Hourly(df, PivotIndex(df), Columns(df))

\* caller p has just come back from a training computation with a model
Trained(p) ==
    /\ done.op = "train_prediction_model" /\ done.p = p
    /\ train[p].queried /\ train[p].status = "ok"
    /\ train[p].model # NoModel

\* C22: the lag returned with a model is one of the candidates 1..12, and
\* no candidate has a larger correlation between the downstream series and
\* the lag-shifted upstream series, whatever the hourly history (constant
\* series and undefined or negative correlations included).
C22_LagIsBestCandidate ==
    \A p \in Procs : Trained(p) =>
        /\ train[p].lag \in 1..MaxLag
        /\ LET H == TrainFrame.v["HatYai"]
               S == TrainFrame.v["Sadao"]
           IN \A lag \in 1..MaxLag :
                 Corr(H, S, lag) # NaN =>
                     /\ Corr(H, S, train[p].lag) # NaN
                     /\ Corr(H, S, lag) <= Corr(H, S, train[p].lag)

\* C21: of the callers that find no unexpired cached model, at most one is
\* in the training computation (store query and fit) at a time; the others
\* wait for its result.
C21_SingleTraining ==
    Cardinality({p \in Procs : train[p].pc = "fit"}) <= 1

====
